---- MODULE Spec2Model ----
(***************************************************************************)
(* Model of the authentication handler of ocm-sdk-go (package              *)
(* authentication, handler.go): the HandlerBuilder and its Build, the      *)
(* request pipeline of Handler.ServeHTTP, the key store with its           *)
(* rate-limited reload on a miss, and the key loader.                      *)
(*                                                                         *)
(* Time is counted in ticks of one minute.  Errors are strings, "nil" is   *)
(* the nil error.                                                          *)
(***************************************************************************)
EXTENDS Integers, Sequences, FiniteSets, TLC

VARIABLES
    b,              \* the HandlerBuilder: the values set so far
    built,          \* whether Build has returned
    h,              \* the *Handler returned by Build (h.ok = FALSE: nil)
    buildErr,       \* the error returned by Build
    keys,           \* Handler.keys, the sync.Map: kid -> key
    lastKeyReload,  \* Handler.lastKeyReload
    now,            \* the wall clock read by time.Now and time.Since
    src,            \* what each key source currently serves
    req,            \* the requests inside ServeHTTP, one record per goroutine
    hist            \* history: the times of the last two misses that reloaded

vars == <<b, built, h, buildErr, keys, lastKeyReload, now, src, req, hist>>

-----------------------------------------------------------------------------
(* Bounds of the model.                                                    *)

\* most public paths, keys files, keys URLs and ACL files given to a builder
MaxPublic == 1
MaxKeysFiles == 1
MaxKeysURLs == 2
MaxACLFiles == 2
\* most records in one key-set document of the exhaustive loader check
MaxRecs == 2
\* last tick of the clock
MaxTime == 4

-----------------------------------------------------------------------------
(* The environment of Build: the file system, URLs and regular expressions *)

Nil == "nil"

\* os.Stat of the paths given as keys files
FileKind ==
    [p \in {"/keys.json", "/missing.json", "/keysdir"} |->
        CASE p = "/keys.json"    -> "regular"
          [] p = "/missing.json" -> "missing"
          [] p = "/keysdir"      -> "dir"]

KeysFilePaths == DOMAIN FileKind

\* url.Parse of the addresses given as keys URLs: the error and the scheme
ParseURL ==
    [a \in {"HTTPS://sso/certs", "http://sso/certs", ":bad"} |->
        CASE a = "HTTPS://sso/certs" -> [err |-> Nil, scheme |-> "HTTPS"]
          [] a = "http://sso/certs"  -> [err |-> Nil, scheme |-> "http"]
          [] a = ":bad"              -> [err |-> "missing protocol scheme", scheme |-> ""]]

KeysURLAddrs == DOMAIN ParseURL

\* strings.ToLower on the words the model compares with strings.EqualFold
ToLower(s) ==
    CASE s = "HTTPS"  -> "https"
      [] s = "Bearer" -> "bearer"
      [] s = "BEARER" -> "bearer"
      [] OTHER        -> s

EqualFold(s, t) == ToLower(s) = ToLower(t)

\* The request paths of the model.
Paths == {"/public/info", "/api/clusters_mgmt/v1/clusters", "/private"}

\* regexp.Compile and Regexp.MatchString: a pattern is the set of the model's
\* strings it matches; BadPattern does not compile.
BadPattern == "("
Language ==
    [p \in {"^/public(/.*)?$", "^.*@example\\.com$", "^.*@other\\.com$", "^myuser$"} |->
        CASE p = "^/public(/.*)?$"     -> {"/public/info"}
          [] p = "^.*@example\\.com$"  -> {"a@example.com"}
          [] p = "^.*@other\\.com$"    -> {"a@other.com"}
          [] p = "^myuser$"            -> {"myuser"}]

CompileErr(p) == IF p \in DOMAIN Language THEN Nil ELSE "error parsing regexp"
MatchString(p, s) == p \in DOMAIN Language /\ s \in Language[p]

PublicPatterns == {"^/public(/.*)?$", BadPattern}

\* ioutil.ReadFile and yaml.Unmarshal of the ACL files: the read error, the
\* parse error and the list of items
ACLFileData ==
    [f \in {"/acl.yaml", "/acl2.yaml", "/aclbad.yaml", "/noacl.yaml"} |->
        CASE f = "/acl.yaml" ->
                [readErr |-> Nil, parseErr |-> Nil,
                 items |-> << [Claim |-> "email", Pattern |-> "^.*@example\\.com$"],
                              [Claim |-> "sub", Pattern |-> "^myuser$"] >>]
          [] f = "/acl2.yaml" ->
                [readErr |-> Nil, parseErr |-> Nil,
                 items |-> << [Claim |-> "email", Pattern |-> "^myuser$"],
                              [Claim |-> "email", Pattern |-> "^.*@other\\.com$"] >>]
          [] f = "/aclbad.yaml" ->
                [readErr |-> Nil, parseErr |-> Nil,
                 items |-> << [Claim |-> "email", Pattern |-> BadPattern] >>]
          [] f = "/noacl.yaml" ->
                [readErr |-> "no such file or directory", parseErr |-> Nil, items |-> << >>]]

ACLFilePaths == DOMAIN ACLFileData
ACLClaims == {"email", "sub"}

-----------------------------------------------------------------------------
(* HandlerBuilder                                                          *)

\* NewHandler: the empty builder
NewHandler ==
    [logger |-> FALSE, publicPaths |-> << >>, keysFiles |-> << >>,
     keysURLs |-> << >>, aclFiles |-> << >>, next |-> FALSE]

\* The nil *Handler
NoHandler ==
    [ok |-> FALSE, publicPaths |-> << >>, keysFiles |-> << >>, keysURLs |-> << >>,
     aclItems |-> [c \in ACLClaims |-> ""]]

\* An ACL map holds a pattern for a claim, or nothing: NoPattern
NoPattern == ""
EmptyACL == [c \in ACLClaims |-> NoPattern]

\* The check of the keys files (the loop over b.keysFiles in Build): the
\* first error, or nil
RECURSIVE CheckKeysFiles(_)
CheckKeysFiles(files) ==
    IF files = << >> THEN Nil
    ELSE IF FileKind[Head(files)] = "missing" THEN "keys file doesn't exist"
    ELSE IF FileKind[Head(files)] # "regular" THEN "keys file isn't a regular file"
    ELSE CheckKeysFiles(Tail(files))

\* The check of the keys URLs (the loop over b.keysURLs in Build): whether
\* Build returns from inside the loop, and the value of err after it.  A URL
\* that does not parse returns; a URL with another scheme only sets err, and
\* the next iteration assigns err again.
RECURSIVE CheckKeysURLs(_, _)
CheckKeysURLs(urls, err) ==
    IF urls = << >> THEN [return |-> FALSE, err |-> err]
    ELSE LET parsed == ParseURL[Head(urls)] IN
         IF parsed.err # Nil
         THEN [return |-> TRUE, err |-> "keys URL isn't a valid URL"]
         ELSE IF ~EqualFold(parsed.scheme, "https")
         THEN CheckKeysURLs(Tail(urls), "keys URL doesn't use the HTTPS protocol")
         ELSE CheckKeysURLs(Tail(urls), Nil)

\* The compilation of the public paths: err is assigned by every Compile
RECURSIVE CompilePublic(_, _)
CompilePublic(exprs, err) ==
    IF exprs = << >> THEN [return |-> FALSE, err |-> err]
    ELSE IF CompileErr(Head(exprs)) # Nil
    THEN [return |-> TRUE, err |-> CompileErr(Head(exprs))]
    ELSE CompilePublic(Tail(exprs), Nil)

\* A variant of ProcessACLItems that keeps the first pattern of a claim
RECURSIVE ProcessACLItemsKeepFirst(_, _)
ProcessACLItemsKeepFirst(listData, items) ==
    IF listData = << >> THEN [err |-> Nil, items |-> items]
    ELSE LET itemData == Head(listData) IN
         IF CompileErr(itemData.Pattern) # Nil
         THEN [err |-> CompileErr(itemData.Pattern), items |-> items]
         ELSE ProcessACLItemsKeepFirst(Tail(listData),
                  IF items[itemData.Claim] # NoPattern THEN items
                  ELSE [items EXCEPT ![itemData.Claim] = itemData.Pattern])

\* The loop over the items of one ACL document in loadACLFile
RECURSIVE ProcessACLItems(_, _)
ProcessACLItems(listData, items) ==
    IF listData = << >> THEN [err |-> Nil, items |-> items]
    ELSE LET itemData == Head(listData) IN
         IF CompileErr(itemData.Pattern) # Nil
         THEN [err |-> CompileErr(itemData.Pattern), items |-> items]
         ELSE ProcessACLItems(Tail(listData),
                              [items EXCEPT ![itemData.Claim] = itemData.Pattern])

\* loadACLFile: the error and the map of ACL items after it
LoadACLFile(file, items) ==
    LET data == ACLFileData[file] IN
    IF data.readErr # Nil THEN [err |-> data.readErr, items |-> items]
    ELSE IF data.parseErr # Nil THEN [err |-> data.parseErr, items |-> items]
    ELSE ProcessACLItems(data.items, items)

\* The loop over b.aclFiles in Build: err is assigned by every loadACLFile
RECURSIVE LoadACLFiles(_, _, _)
LoadACLFiles(files, items, err) ==
    IF files = << >> THEN [return |-> FALSE, err |-> err, items |-> items]
    ELSE LET r == LoadACLFile(Head(files), items) IN
         IF r.err # Nil THEN [return |-> TRUE, err |-> r.err, items |-> r.items]
         ELSE LoadACLFiles(Tail(files), r.items, Nil)

\* HandlerBuilder.Build: the handler and the error it returns
Build(bb) ==
    IF ~bb.logger THEN [handler |-> NoHandler, err |-> "logger is mandatory"]
    ELSE IF ~bb.next THEN [handler |-> NoHandler, err |-> "next handler is mandatory"]
    ELSE IF Len(bb.keysFiles) + Len(bb.keysURLs) = 0
    THEN [handler |-> NoHandler,
          err |-> "at least one keys file or one keys URL must be configured"]
    ELSE IF CheckKeysFiles(bb.keysFiles) # Nil
    THEN [handler |-> NoHandler, err |-> CheckKeysFiles(bb.keysFiles)]
    ELSE LET urls == CheckKeysURLs(bb.keysURLs, Nil) IN
         IF urls.return THEN [handler |-> NoHandler, err |-> urls.err]
    ELSE LET public == CompilePublic(bb.publicPaths, urls.err) IN
         IF public.return THEN [handler |-> NoHandler, err |-> public.err]
    ELSE LET acl == LoadACLFiles(bb.aclFiles, EmptyACL, public.err) IN
         IF acl.return THEN [handler |-> NoHandler, err |-> acl.err]
    ELSE [handler |-> [ok |-> TRUE,
                       publicPaths |-> bb.publicPaths,
                       keysFiles |-> bb.keysFiles,
                       keysURLs |-> bb.keysURLs,
                       aclItems |-> acl.items],
          err |-> acl.err]

-----------------------------------------------------------------------------
(* Keys and key-set documents                                              *)

\* base64.RawURLEncoding.DecodeString on the values of the model: the bytes,
\* or an error for a value that is not base64
B64Err(s) == IF s = "!" THEN "illegal base64 data" ELSE Nil
B64Bytes(s) ==
    CASE s = ""     -> << >>
      [] s = "AQAB" -> <<1, 0, 1>>
      [] s = "uw"   -> <<187>>
      [] s = "jw"   -> <<143>>
      [] OTHER      -> << >>

\* new(big.Int).SetBytes: the big-endian value of the bytes, 0 for none
RECURSIVE SetBytes(_)
SetBytes(bytes) ==
    IF bytes = << >> THEN 0
    ELSE SetBytes(SubSeq(bytes, 1, Len(bytes) - 1)) * 256 + bytes[Len(bytes)]

\* What keys.Load returns for an identifier without a key
NoKey == [N |-> -1, E |-> -1]

\* The key identifiers of the model; "" is the empty identifier
Kids == {"", "k1", "k2"}

\* Handler.parseKey: the key and the error
ParseKey(data) ==
    IF data.Kty # "RSA" THEN [key |-> NoKey, err |-> "key type isn't supported"]
    ELSE IF B64Err(data.N) # Nil THEN [key |-> NoKey, err |-> B64Err(data.N)]
    ELSE IF B64Err(data.E) # Nil THEN [key |-> NoKey, err |-> B64Err(data.E)]
    ELSE [key |-> [N |-> SetBytes(B64Bytes(data.N)), E |-> SetBytes(B64Bytes(data.E))],
          err |-> Nil]

\* One iteration of the loop of readKeys over setData.Keys: whether the
\* record is stored, the key, and the line logged.  The fifth test repeats
\* the test of E, as the source does.
ReadKey(keyData) ==
    IF keyData.Kid = ""
    THEN [store |-> FALSE, key |-> NoKey,
          log |-> "Can't read key because 'kid' is empty"]
    ELSE IF keyData.Kty = ""
    THEN [store |-> FALSE, key |-> NoKey,
          log |-> "Can't read key because 'kty' is empty"]
    ELSE IF keyData.Alg = ""
    THEN [store |-> FALSE, key |-> NoKey,
          log |-> "Can't read key because 'alg' is empty"]
    ELSE IF keyData.E = ""
    THEN [store |-> FALSE, key |-> NoKey,
          log |-> "Can't read key because 'e' is empty"]
    ELSE IF keyData.E = ""
    THEN [store |-> FALSE, key |-> NoKey,
          log |-> "Can't read key because 'n' is empty"]
    ELSE IF ParseKey(keyData).err # Nil
    THEN [store |-> FALSE, key |-> NoKey,
          log |-> "Key will be ignored because it can't be parsed"]
    ELSE [store |-> TRUE, key |-> ParseKey(keyData).key,
          log |-> "Loaded key"]

\* A key record of a key-set document (keyData; `use` is read by nobody)
KeyData(kid, kty, alg, n, e) ==
    [Kid |-> kid, Kty |-> kty, Alg |-> alg, N |-> n, E |-> e]

\* The number of fields of a record that readKeys or parseKey must refuse
Defects(keyData) ==
    (IF keyData.Kid = "" THEN 1 ELSE 0) + (IF keyData.Kty # "RSA" THEN 1 ELSE 0)
    + (IF keyData.Alg = "" THEN 1 ELSE 0) + (IF keyData.N \in {"", "!"} THEN 1 ELSE 0)
    + (IF keyData.E = "" THEN 1 ELSE 0)

\* The records of the exhaustive loader check: every record over the field
\* values of the model with at most two such fields
AllKeyData ==
    {keyData \in [Kid : {"", "k1", "k2"}, Kty : {"", "RSA", "EC"}, Alg : {"", "RS256"},
                  N : {"", "!", "uw"}, E : {"", "AQAB"}] : Defects(keyData) <= 2}

\* What a source serves: the error of opening it (os.Open, http.Client.Do),
\* of reading it (ioutil.ReadAll), of parsing it (json.Unmarshal), and the
\* records of the document
Content(openErr, readErr, parseErr, ks) ==
    [openErr |-> openErr, readErr |-> readErr, parseErr |-> parseErr, keys |-> ks]

Document(ks) == Content(Nil, Nil, Nil, ks)
Unavailable == Content("can't open", Nil, Nil, << >>)
BrokenBody == Content(Nil, "unexpected EOF", Nil, << >>)
Garbage == Content(Nil, Nil, "invalid character", << >>)

K1uw == KeyData("k1", "RSA", "RS256", "uw", "AQAB")
K1jw == KeyData("k1", "RSA", "RS256", "jw", "AQAB")
K2uw == KeyData("k2", "RSA", "RS256", "uw", "AQAB")
K2ec == KeyData("k2", "EC", "ES256", "uw", "AQAB")

KeyUW == [N |-> 187, E |-> 65537]
KeyJW == [N |-> 143, E |-> 65537]

\* The contents the sources of the request specifications move between: a
\* keys file is there or not, a keys URL serves a document or fails
FileContents == {Unavailable, Document(<<K1uw>>)}
URLContents == {BrokenBody, Garbage, Document(<<K2ec, K1jw>>), Document(<<K2uw>>)}

\* Every document of at most MaxRecs records
RECURSIVE SeqsUpTo(_, _)
SeqsUpTo(S, n) ==
    IF n = 0 THEN {<< >>}
    ELSE LET shorter == SeqsUpTo(S, n - 1) IN
         shorter \cup {Append(s, x) : s \in {t \in shorter : Len(t) = n - 1}, x \in S}

AllDocuments == {Document(ks) : ks \in SeqsUpTo(AllKeyData, MaxRecs)}

-----------------------------------------------------------------------------
(* Requests and tokens                                                     *)

\* A JSON value of a claim or of the kid header: absent, a string or a number
Absent == [t |-> "absent", s |-> "", n |-> 0]
Str(s) == [t |-> "string", s |-> s, n |-> 0]
Num(n) == [t |-> "number", s |-> "", n |-> n]

\* A time after every tick of the clock
Far == MaxTime + 1

\* A token, as the parser of the JWT library sees the credential:
\*   form    "ok", or "malformed" when it is not three decodable segments
\*   alg     the signing method named in its header ("" for none named)
\*   kid     the kid field of its header
\*   signer  the public key matching the private key that signed it
\*   claims  its claims
Token(form, alg, kid, signer, claims) ==
    [form |-> form, alg |-> alg, kid |-> kid, signer |-> signer, claims |-> claims]

Claims(typ, iat, exp, nbf, email, sub) ==
    [typ |-> typ, iat |-> iat, exp |-> exp, nbf |-> nbf, email |-> email, sub |-> sub]


\* The characters of the Authorization headers of the model.  "$" stands for
\* the compact serialization of the token of the request.
Letters == {"B", "E", "A", "R", "b", "e", "a", "r", "s", "i", "c"}
Whitespace == {" ", "\t", "\n"}
TokenChar == "$"

\* unicode.ToLower on the letters of the model
LowerChar(c) ==
    CASE c = "B" -> "b"
      [] c = "E" -> "e"
      [] c = "A" -> "a"
      [] c = "R" -> "r"
      [] OTHER   -> c

\* A variant of EqualFoldChars that compares the letters as they are
EqualChars(s, t) == s = t

\* strings.EqualFold on sequences of characters
EqualFoldChars(s, t) ==
    /\ Len(s) = Len(t)
    /\ \A k \in 1..Len(s) : LowerChar(s[k]) = LowerChar(t[k])

BearerWord == <<"B", "e", "a", "r", "e", "r">>

\* The length of the longest prefix of s made of characters of S
RECURSIVE PrefixLen(_, _)
PrefixLen(s, S) ==
    IF s = << >> \/ Head(s) \notin S THEN 0 ELSE 1 + PrefixLen(Tail(s), S)

\* bearerRE.FindStringSubmatch, ^([a-zA-Z0-9]+)\s+(.*)$ : the number of
\* matches returned and the two groups.  The first group is the whole run of
\* letters, \s+ needs one white space after it, and . matches no new line.
FindStringSubmatch(header) ==
    LET p == PrefixLen(header, Letters)
        afterType == SubSeq(header, p + 1, Len(header))
        w == PrefixLen(afterType, Whitespace)
        rest == SubSeq(afterType, w + 1, Len(afterType))
    IN  IF p >= 1 /\ w >= 1 /\ \A k \in 1..Len(rest) : rest[k] # "\n"
        THEN [len |-> 3, typ |-> SubSeq(header, 1, p), bearer |-> rest]
        ELSE [len |-> 0, typ |-> << >>, bearer |-> << >>]

\* The flags of jwt.ValidationError
Malformed == "ValidationErrorMalformed"
Unverifiable == "ValidationErrorUnverifiable"
SignatureInvalid == "ValidationErrorSignatureInvalid"
Expired == "ValidationErrorExpired"
IssuedAt == "ValidationErrorIssuedAt"
NotValidYet == "ValidationErrorNotValidYet"

\* Parser.ParseWithClaims up to the call of the key function: the flags of
\* the error (none when the key function is called).  A credential that is
\* not the serialization of a token is malformed.
ParseUnverified(bearer, token) ==
    IF bearer # <<TokenChar>> \/ token.form # "ok" THEN {Malformed}
    ELSE IF token.alg \notin {"RS256", "none"} THEN {Unverifiable}
    ELSE {}

\* MapClaims.Valid at time t: a claim that is no number, or is 0, passes
ClaimsValid(claims, t) ==
    (IF claims.exp.t = "number" /\ claims.exp.n # 0 /\ ~(t <= claims.exp.n)
        THEN {Expired} ELSE {})
    \cup (IF claims.iat.t = "number" /\ claims.iat.n # 0 /\ ~(t >= claims.iat.n)
        THEN {IssuedAt} ELSE {})
    \cup (IF claims.nbf.t = "number" /\ claims.nbf.n # 0 /\ ~(t >= claims.nbf.n)
        THEN {NotValidYet} ELSE {})

\* SigningMethod.Verify with the key the key function returned: an RSA
\* method accepts the signature made with the matching private key; the
\* method "none" refuses every key that is not its own marker.
Verify(token, key) ==
    IF token.alg = "RS256" /\ key = token.signer THEN {} ELSE {SignatureInvalid}

\* Parser.ParseWithClaims after the key function returned key
ValidateWithKey(token, key, t) == ClaimsValid(token.claims, t) \cup Verify(token, key)

\* The switch of checkToken on the flags of the error: the reason sent
TokenErrorReason(flags) ==
    IF Malformed \in flags THEN "Bearer token is malformed"
    ELSE IF Unverifiable \in flags THEN "Bearer token can't be verified"
    ELSE IF SignatureInvalid \in flags THEN "Signature of bearer token isn't valid"
    ELSE IF Expired \in flags THEN "Bearer token is expired"
    ELSE IF IssuedAt \in flags THEN "Bearer token was issued in the future"
    ELSE IF NotValidYet \in flags THEN "Bearer token isn't valid yet"
    ELSE "Bearer token isn't valid"

\* The verb %v of fmt on the value of a claim
FormatValue(value) == IF value.t = "string" THEN value.s ELSE ToString(value.n)

\* checkClaim, checkStringClaim and checkTimeClaim: the reason sent, or nil
CheckClaim(claims, name) ==
    IF claims[name].t = "absent"
    THEN "Bearer token doesn't contain required claim '" \o name \o "'"
    ELSE Nil

CheckStringClaim(claims, name) ==
    IF CheckClaim(claims, name) # Nil THEN CheckClaim(claims, name)
    ELSE IF claims[name].t # "string"
    THEN "Bearer token claim '" \o name \o "' contains incorrect text value '"
         \o FormatValue(claims[name]) \o "'"
    ELSE Nil

\* A variant of checkTimeClaim that accepts a value of any type
CheckTimeClaimOfAnyType(claims, name) == CheckClaim(claims, name)

CheckTimeClaim(claims, name) ==
    IF CheckClaim(claims, name) # Nil THEN CheckClaim(claims, name)
    ELSE IF claims[name].t # "number"
    THEN "Bearer token claim '" \o name \o "' contains incorrect time value '"
         \o FormatValue(claims[name]) \o "'"
    ELSE Nil

\* A variant of checkClaims that does not require the exp claim
CheckClaimsWithoutExp(claims) ==
    IF CheckStringClaim(claims, "typ") # Nil
    THEN [reason |-> CheckStringClaim(claims, "typ"), claim |-> "typ"]
    ELSE IF ~EqualFold(claims.typ.s, "Bearer")
    THEN [reason |-> "Bearer token type '" \o claims.typ.s \o "' isn't supported",
          claim |-> "typ"]
    ELSE IF CheckTimeClaim(claims, "iat") # Nil
    THEN [reason |-> CheckTimeClaim(claims, "iat"), claim |-> "iat"]
    ELSE [reason |-> Nil, claim |-> ""]

\* checkClaims: the reason sent and the claim it names, or nil
CheckClaims(claims) ==
    IF CheckStringClaim(claims, "typ") # Nil
    THEN [reason |-> CheckStringClaim(claims, "typ"), claim |-> "typ"]
    ELSE IF ~EqualFold(claims.typ.s, "Bearer")
    THEN [reason |-> "Bearer token type '" \o claims.typ.s \o "' isn't supported",
          claim |-> "typ"]
    ELSE IF CheckTimeClaim(claims, "iat") # Nil
    THEN [reason |-> CheckTimeClaim(claims, "iat"), claim |-> "iat"]
    ELSE IF CheckTimeClaim(claims, "exp") # Nil
    THEN [reason |-> CheckTimeClaim(claims, "exp"), claim |-> "exp"]
    ELSE [reason |-> Nil, claim |-> ""]

\* The claims of the ACL: the items that hold a pattern
ACLLen(aclItems) == Cardinality({c \in DOMAIN aclItems : aclItems[c] # NoPattern})

\* The orders in which range h.aclItems can visit the items of the map:
\* every sequence of the claims that hold a pattern, each once
ACLOrders(aclItems) ==
    LET claims == {c \in DOMAIN aclItems : aclItems[c] # NoPattern} IN
    {order \in [1..Cardinality(claims) -> claims] :
        \A k, n \in 1..Cardinality(claims) : order[k] = order[n] => k = n}

\* A variant of the loop of checkACL that gives up at the first item that
\* does not match
RECURSIVE CheckACLUpToMismatch(_, _, _)
CheckACLUpToMismatch(order, aclItems, claims) ==
    IF order = << >> THEN FALSE
    ELSE LET value == claims[Head(order)] IN
         IF value.t = "absent" THEN CheckACLUpToMismatch(Tail(order), aclItems, claims)
         ELSE IF value.t # "string"
         THEN CheckACLUpToMismatch(Tail(order), aclItems, claims)
         ELSE MatchString(aclItems[Head(order)], value.s)

\* The loop of checkACL over the items in the given order: whether it
\* returns true
RECURSIVE CheckACLInOrder(_, _, _)
CheckACLInOrder(order, aclItems, claims) ==
    IF order = << >> THEN FALSE
    ELSE LET value == claims[Head(order)] IN
         IF value.t = "absent" THEN CheckACLInOrder(Tail(order), aclItems, claims)
         ELSE IF value.t # "string" THEN CheckACLInOrder(Tail(order), aclItems, claims)
         ELSE IF MatchString(aclItems[Head(order)], value.s) THEN TRUE
         ELSE CheckACLInOrder(Tail(order), aclItems, claims)

\* checkACL: whether access is allowed, in some order of the iteration
CheckACL(aclItems, claims) ==
    \/ ACLLen(aclItems) = 0
    \/ \E order \in ACLOrders(aclItems) : CheckACLInOrder(order, aclItems, claims)

\* strings.Split(r.URL.Path, "/") on the paths of the model
Segments(path) ==
    CASE path = "/public/info" -> <<"", "public", "info">>
      [] path = "/api/clusters_mgmt/v1/clusters" ->
            <<"", "api", "clusters_mgmt", "v1", "clusters">>
      [] path = "/private" -> <<"", "private">>
      [] path = "/api/clusters_mgmt/v1" -> <<"", "api", "clusters_mgmt", "v1">>
      [] path = "/api/clusters_mgmt" -> <<"", "api", "clusters_mgmt">>

\* strings.ToUpper(strings.ReplaceAll(service, "_", "-")) on the segments
\* of the model
UpperDashed(service) ==
    CASE service = "clusters_mgmt" -> "CLUSTERS-MGMT"
      [] OTHER -> service

\* The status that the responders of the errors package write for a body:
\* the number that its id spells
StatusOf(id) ==
    CASE id = "401" -> 401
      [] id = "500" -> 500

\* The response of sendError: the status, the fields of the error body and
\* the realm of the WWW-Authenticate header (service and version)
NoResponse ==
    [status |-> 0, id |-> "", reason |-> "", href |-> << >>, code |-> << >>,
     realm |-> << >>]

\* A variant of ErrorResponse that wants a segment after the version
ErrorResponseOverFour(path, reason) ==
    LET segments == Segments(path) IN
    [status |-> StatusOf("401"), id |-> "401", reason |-> reason,
     href |-> IF Len(segments) > 4
              THEN <<segments[2], segments[3], segments[4], "errors", "401">>
              ELSE << >>,
     code |-> IF Len(segments) > 4 THEN <<UpperDashed(segments[3]), "401">> ELSE << >>,
     realm |-> IF Len(segments) > 4 THEN <<segments[3], segments[4]>> ELSE << >>]

ErrorResponse(path, reason) ==
    LET segments == Segments(path) IN
    [status |-> StatusOf("401"), id |-> "401", reason |-> reason,
     href |-> IF Len(segments) >= 4
              THEN <<segments[2], segments[3], segments[4], "errors", "401">>
              ELSE << >>,
     code |-> IF Len(segments) >= 4 THEN <<UpperDashed(segments[3]), "401">> ELSE << >>,
     realm |-> IF Len(segments) >= 4 THEN <<segments[3], segments[4]>> ELSE << >>]

-----------------------------------------------------------------------------
(* The state of one request inside ServeHTTP                               *)

\* The goroutines that can be inside ServeHTTP at the same time
Slots == {"r1", "r2"}
FirstSlot == "r1"

NoClaims == Claims(Absent, Absent, Absent, Absent, Absent, Absent)
NoToken == Token("malformed", "", Absent, NoKey, NoClaims)
NoInput == [path |-> "/private", header |-> << >>, token |-> NoToken, bodyErr |-> Nil]

\* What the next handler received: nothing, or the request, with the token
\* that ContextWithToken attached to its context
NotPassed == [called |-> FALSE, withToken |-> FALSE, token |-> NoToken]

\* A slot with no request.  pc is the place of the goroutine:
\*   "idle"      no request
\*   "load"      before key, ok = h.keys.Load(kid), the first lookup
\*   "since"     before time.Since(h.lastKeyReload) > 1*time.Minute
\*   "loadKeys"  in loadKeys, before the source number i
\*   "fetch"     in loadKeysURL, inside h.keysClient.Do for the source i
\*   "readKeys"  in readKeys, before the record number j of doc
\*   "mark"      before h.lastKeyReload = time.Now()
\*   "reload"    before the second h.keys.Load(kid)
\*   "done"      ServeHTTP is about to return
\* The other fields are the local variables of the goroutine, what it
\* logged (attempted, failed, stored), what it answered (next, sendError,
\* response, passed, and writes, the responders that sendError called), the
\* stages of ServeHTTP it entered, what it touched (headerRead, loads, reloads), whether
\* its context is cancelled, and the response bodies of its fetches: whether
\* loadKeysURL holds one, how many it got and how many times it closed one.
Idle ==
    [pc |-> "idle", in |-> NoInput, kid |-> "", i |-> 0, j |-> 0, doc |-> << >>,
     attempted |-> << >>, failed |-> << >>, stored |-> << >>, loadErr |-> Nil,
     key |-> NoKey, next |-> 0, sendError |-> 0, response |-> NoResponse,
     passed |-> NotPassed, headerRead |-> FALSE, loads |-> 0, reloads |-> 0,
     cancelled |-> FALSE, body |-> FALSE, opened |-> 0, closed |-> 0,
     writes |-> << >>, stages |-> << >>]

\* h.next.ServeHTTP(w, r), with or without the token in the context
Forward(s, withToken) ==
    [s EXCEPT !.pc = "done", !.next = @ + 1, !.stages = Append(@, "forward"),
              !.passed = [called |-> TRUE, withToken |-> withToken,
                          token |-> IF withToken THEN s.in.token ELSE NoToken]]

\* The response of errors.SendPanic: the generic answer of the panic
\* responder, which is the first one written when the builder fails
PanicResponse ==
    [status |-> StatusOf("500"), id |-> "500", reason |-> "", href |-> << >>, code |-> << >>,
     realm |-> << >>]

\* The responders that sendError calls, in order, when builder.Build()
\* returns err: errors.SendPanic when err is not nil, and then, with no
\* return in between, errors.SendError
SendErrorWrites(err) ==
    (IF err # Nil THEN <<"SendPanic">> ELSE << >>) \o <<"SendError">>

\* h.sendError(w, r, reason), where in.bodyErr is the error that
\* builder.Build() returns
SendError(s, reason) ==
    [s EXCEPT !.pc = "done", !.sendError = @ + 1,
              !.writes = @ \o SendErrorWrites(s.in.bodyErr),
              !.response = IF s.in.bodyErr # Nil THEN PanicResponse
                           ELSE ErrorResponse(s.in.path, reason)]

\* Whether a public pattern of the handler matches the path
IsPublic(hh, path) ==
    \E k \in 1..Len(hh.publicPaths) : MatchString(hh.publicPaths[k], path)

\* A variant of AfterKey that calls the next handler after an ACL denial
AfterKeyForwardsAfterDenial(hh, s, key, t) ==
    LET token == s.in.token
        flags == ValidateWithKey(token, key, t)
        withKey == [s EXCEPT !.key = key]
    IN  IF flags # {} THEN SendError(withKey, TokenErrorReason(flags))
        ELSE IF CheckClaims(token.claims).reason # Nil
        THEN SendError(withKey, CheckClaims(token.claims).reason)
        ELSE IF ~CheckACL(hh.aclItems, token.claims)
        THEN Forward(SendError(withKey, "Access denied"), TRUE)
        ELSE Forward(withKey, TRUE)

\* A variant of AfterKey that checks the ACL before the shape of the claims
AfterKeyChecksACLFirst(hh, s, key, t) ==
    LET token == s.in.token
        flags == ValidateWithKey(token, key, t)
        withKey == [s EXCEPT !.key = key]
        inACL == [withKey EXCEPT !.stages = Append(@, "acl")]
        inClaims == [inACL EXCEPT !.stages = Append(@, "claims")]
    IN  IF flags # {} THEN SendError(withKey, TokenErrorReason(flags))
        ELSE IF ~CheckACL(hh.aclItems, token.claims)
        THEN SendError(inACL, "Access denied")
        ELSE IF CheckClaims(token.claims).reason # Nil
        THEN SendError(inClaims, CheckClaims(token.claims).reason)
        ELSE Forward(inClaims, TRUE)

\* ServeHTTP after selectKey returned key at time t: the rest of
\* ParseWithClaims, then checkClaims, checkACL and the next handler
AfterKey(hh, s, key, t) ==
    LET token == s.in.token
        flags == ValidateWithKey(token, key, t)
        withKey == [s EXCEPT !.key = key]
        inClaims == [withKey EXCEPT !.stages = Append(@, "claims")]
        inACL == [inClaims EXCEPT !.stages = Append(@, "acl")]
    IN  IF flags # {} THEN SendError(withKey, TokenErrorReason(flags))
        ELSE IF CheckClaims(token.claims).reason # Nil
        THEN SendError(inClaims, CheckClaims(token.claims).reason)
        ELSE IF ~CheckACL(hh.aclItems, token.claims)
        THEN SendError(inACL, "Access denied")
        ELSE Forward(inACL, TRUE)

\* selectKey returned an error: ParseWithClaims wraps it as unverifiable
KeyError(s) == SendError(s, TokenErrorReason({Unverifiable}))

\* A variant of Begin that reads the Authorization header before it looks at
\* the public paths
BeginReadsHeaderFirst(hh, in) ==
    LET s == [Idle EXCEPT !.in = in]
        read == [s EXCEPT !.headerRead = TRUE]
        matches == FindStringSubmatch(in.header)
    IN  IF in.header = << >>
        THEN SendError(read, "Request doesn't contain the 'Authorization' header")
        ELSE IF IsPublic(hh, in.path) THEN Forward(read, FALSE)
        ELSE IF matches.len # 3
        THEN SendError(read, "Authorization header is malformed")
        ELSE IF ~EqualFoldChars(matches.typ, BearerWord)
        THEN SendError(read, "Authentication type isn't supported")
        ELSE IF ParseUnverified(matches.bearer, in.token) # {}
        THEN SendError(read, TokenErrorReason(ParseUnverified(matches.bearer, in.token)))
        ELSE IF in.token.kid.t # "string" THEN KeyError(read)
        ELSE [read EXCEPT !.pc = "load", !.kid = in.token.kid.s]

\* ServeHTTP from its first line to the first lookup of the key: the public
\* paths, the Authorization header, the parse of the token and the kid
Begin(hh, in) ==
    LET s == [Idle EXCEPT !.in = in, !.stages = <<"public">>]
        read == [s EXCEPT !.headerRead = TRUE, !.stages = Append(@, "header")]
        inToken == [read EXCEPT !.stages = Append(@, "token")]
        matches == FindStringSubmatch(in.header)
    IN  IF IsPublic(hh, in.path) THEN Forward(s, FALSE)
        ELSE IF in.header = << >>
        THEN SendError(read, "Request doesn't contain the 'Authorization' header")
        ELSE IF matches.len # 3
        THEN SendError(read, "Authorization header is malformed")
        ELSE IF ~EqualFoldChars(matches.typ, BearerWord)
        THEN SendError(read, "Authentication type isn't supported")
        ELSE IF ParseUnverified(matches.bearer, in.token) # {}
        THEN SendError(inToken,
                       TokenErrorReason(ParseUnverified(matches.bearer, in.token)))
        ELSE IF in.token.kid.t # "string" THEN KeyError(inToken)
        ELSE [inToken EXCEPT !.pc = "load", !.kid = in.token.kid.s]

-----------------------------------------------------------------------------
(* The key store                                                           *)

\* The clock of Go, in minutes: the zero time.Time (year 1), the largest
\* time.Duration, at which time.Since saturates, and the reload interval
ZeroTime == -1035593280
MaxDuration == 153722867
Minute == 1

\* time.Since(t) at the time now
Since(t) == IF now - t > MaxDuration THEN MaxDuration ELSE now - t

\* A variant of ReloadDue without the rate limit
ReloadAlwaysDue(t) == TRUE

\* The test of selectKey on the time read from h.lastKeyReload
ReloadDue(t) == Since(t) > 1 * Minute

\* The sources of the handler in the order of loadKeys: files, then URLs
Sources(hh) == hh.keysFiles \o hh.keysURLs

SourceNames == KeysFilePaths \cup KeysURLAddrs

\* A variant of LoadKeysResult that returns the error of a failed source
LoadKeysResultFails(failed) == IF failed # << >> THEN "can't load keys" ELSE Nil

\* The error loadKeys returns after it logged the errors of the sources
LoadKeysResult(failed) == Nil

\* The error of a source: of opening it, reading it and parsing it
SourceErr(content) ==
    IF content.openErr # Nil THEN content.openErr
    ELSE IF content.readErr # Nil THEN content.readErr
    ELSE content.parseErr

\* A variant of CloseBody that closes the body only after the loop over the
\* records, not when readKeys returned an error before it
CloseBodyAfterRecords(s) ==
    IF s.body /\ s.pc = "readKeys"
    THEN [s EXCEPT !.body = FALSE, !.closed = @ + 1]
    ELSE [s EXCEPT !.body = FALSE]

\* The deferred function of loadKeysURL: response.Body.Close(), once
\* keysClient.Do has returned a response
CloseBody(s) == IF s.body THEN [s EXCEPT !.body = FALSE, !.closed = @ + 1] ELSE s

\* loadKeysFile or loadKeysURL returns, and loadKeys moves to the source
\* after number i, or returns after the last
NextSource(hh, s) ==
    LET c == CloseBody(s) IN
    IF c.i < Len(Sources(hh))
    THEN [c EXCEPT !.pc = "loadKeys", !.i = @ + 1, !.j = 0, !.doc = << >>]
    ELSE [c EXCEPT !.pc = "mark", !.i = 0, !.j = 0, !.doc = << >>,
                   !.loadErr = LoadKeysResult(c.failed)]

\* The values an unsynchronized read of h.lastKeyReload by r can return: the
\* value stored, or the value another goroutine is writing at that time
ReadLastKeyReload(r) ==
    {lastKeyReload} \cup {now : q \in {q \in Slots \ {r} : req[q].pc = "mark"}}

-----------------------------------------------------------------------------
(* The steps of a request                                                  *)

\* The inputs of the request specifications: the tokens
GoodClaims == Claims(Str("Bearer"), Num(-1), Num(Far), Absent, Str("a@example.com"), Absent)
TokenK1 == Token("ok", "RS256", Str("k1"), KeyUW, GoodClaims)
TokenK2 == Token("ok", "RS256", Str("k2"), KeyUW, GoodClaims)
TokenK1jw == Token("ok", "RS256", Str("k1"), KeyJW, GoodClaims)
TokenOther ==
    Token("ok", "RS256", Str("k1"), KeyUW, [GoodClaims EXCEPT !.email = Str("a@other.com")])
TokenExpired ==
    Token("ok", "RS256", Str("k1"), KeyUW, [GoodClaims EXCEPT !.exp = Num(-1)])
TokenNoExp ==
    Token("ok", "RS256", Str("k1"), KeyUW, [GoodClaims EXCEPT !.exp = Absent])
TokenNoKid == Token("ok", "RS256", Absent, KeyUW, GoodClaims)

BearerHeader == BearerWord \o <<" ", TokenChar>>

\* The requests of the specifications with several requests
Inputs ==
    {[path |-> "/public/info", header |-> << >>, token |-> NoToken, bodyErr |-> Nil],
     [path |-> "/private", header |-> << >>, token |-> NoToken, bodyErr |-> Nil],
     [path |-> "/private", header |-> <<"B", "a", "s", "i", "c", " ", TokenChar>>,
      token |-> TokenK1, bodyErr |-> Nil]}
    \cup {[path |-> "/api/clusters_mgmt/v1/clusters", header |-> BearerHeader, token |-> t, bodyErr |-> Nil] :
            t \in {TokenK1, TokenK2, TokenK1jw, TokenOther, TokenExpired, TokenNoExp,
                   TokenNoKid}}

\* ServeHTTP is called with a request: it runs to its first lookup
Serve(r, inputs) ==
    /\ req[r].pc = "idle"
    /\ \E in \in inputs : req' = [req EXCEPT ![r] = Begin(h, in)]
    /\ UNCHANGED <<b, built, h, buildErr, keys, lastKeyReload, now, src, hist>>

\* A variant of LoadKey that writes the time of the last reload on a hit
LoadKeyTouches(r) ==
    /\ req[r].pc = "load"
    /\ LET s == [req[r] EXCEPT !.loads = @ + 1]
           key == keys[s.kid]
       IN  /\ req' = [req EXCEPT ![r] = IF key # NoKey THEN AfterKey(h, s, key, now)
                                        ELSE [s EXCEPT !.pc = "since"]]
           /\ lastKeyReload' = IF key # NoKey THEN now ELSE lastKeyReload
    /\ UNCHANGED <<b, built, h, buildErr, keys, now, src, hist>>

\* key, ok = h.keys.Load(kid): with a key the request runs to its end
LoadKey(r) ==
    /\ req[r].pc = "load"
    /\ LET s == [req[r] EXCEPT !.loads = @ + 1]
           key == keys[s.kid]
       IN  req' = [req EXCEPT ![r] = IF key # NoKey THEN AfterKey(h, s, key, now)
                                     ELSE [s EXCEPT !.pc = "since"]]
    /\ UNCHANGED <<b, built, h, buildErr, keys, lastKeyReload, now, src, hist>>

\* !ok && time.Since(h.lastKeyReload) > 1*time.Minute: loadKeys starts, or
\* selectKey fails for want of a key
CheckReload(r) ==
    /\ req[r].pc = "since"
    /\ \E t \in ReadLastKeyReload(r) :
          IF ReloadDue(t)
          THEN /\ req' = [req EXCEPT ![r] = [@ EXCEPT !.pc = "loadKeys", !.i = 1,
                                                      !.reloads = @ + 1]]
               /\ hist' = IF Len(hist) < 2 THEN Append(hist, now)
                          ELSE <<hist[2], now>>
          ELSE /\ req' = [req EXCEPT ![r] = KeyError(@)]
               /\ UNCHANGED hist
    /\ UNCHANGED <<b, built, h, buildErr, keys, lastKeyReload, now, src>>

\* readKeys up to its loop over the records, on what the source serves:
\* an error of ReadAll or of Unmarshal ends the source
ReadDocument(hh, s, content) ==
    IF content.readErr # Nil \/ content.parseErr # Nil
    THEN NextSource(hh, [s EXCEPT !.failed = Append(@, Sources(hh)[s.i])])
    ELSE IF content.keys = << >> THEN NextSource(hh, s)
    ELSE [s EXCEPT !.pc = "readKeys", !.j = 1, !.doc = content.keys]

\* One iteration of a loop of loadKeys: the source is logged; a file is
\* opened and read as readKeys does up to its loop over the records, for a
\* URL the request is sent with the context of the request
OpenSource(r) ==
    /\ req[r].pc = "loadKeys"
    /\ LET name == Sources(h)[req[r].i]
           content == src[name]
           s == [req[r] EXCEPT !.attempted = Append(@, name)]
       IN  req' = [req EXCEPT ![r] =
                IF req[r].i > Len(h.keysFiles) THEN [s EXCEPT !.pc = "fetch"]
                ELSE IF content.openErr # Nil
                THEN NextSource(h, [s EXCEPT !.failed = Append(@, name)])
                ELSE ReadDocument(h, s, content)]
    /\ UNCHANGED <<b, built, h, buildErr, keys, lastKeyReload, now, src, hist>>

\* h.keysClient.Do returns what the server answers: an error, or a response
\* whose body readKeys reads
Respond(r) ==
    /\ req[r].pc = "fetch"
    /\ ~req[r].cancelled
    /\ LET name == Sources(h)[req[r].i]
           content == src[name]
           s == req[r]
       IN  req' = [req EXCEPT ![r] =
                IF content.openErr # Nil
                THEN NextSource(h, [s EXCEPT !.failed = Append(@, name)])
                ELSE ReadDocument(h, [s EXCEPT !.body = TRUE, !.opened = @ + 1],
                                  content)]
    /\ UNCHANGED <<b, built, h, buildErr, keys, lastKeyReload, now, src, hist>>

\* The caller cancels the context of a request that waits for the server,
\* or its deadline passes
Cancel(r) ==
    /\ req[r].pc = "fetch"
    /\ ~req[r].cancelled
    /\ req' = [req EXCEPT ![r] = [@ EXCEPT !.cancelled = TRUE]]
    /\ UNCHANGED <<b, built, h, buildErr, keys, lastKeyReload, now, src, hist>>

\* A variant of ContextDone for a fetch that does not carry the context
ContextIgnored(s) == FALSE

\* The fetch carries the context of the request (request.WithContext(ctx)):
\* whether keysClient.Do must return because the context is done
ContextDone(s) == s.cancelled

\* h.keysClient.Do returns the error of the context
Abort(r) ==
    /\ req[r].pc = "fetch"
    /\ ContextDone(req[r])
    /\ req' = [req EXCEPT ![r] =
             NextSource(h, [@ EXCEPT !.failed = Append(@, Sources(h)[req[r].i])])]
    /\ UNCHANGED <<b, built, h, buildErr, keys, lastKeyReload, now, src, hist>>

\* A variant of AfterRecord in which a rejected record ends readKeys with an
\* error
AfterRecordStopsOnReject(hh, s, stored) ==
    IF ~stored THEN NextSource(hh, [s EXCEPT !.failed = Append(@, Sources(hh)[s.i])])
    ELSE IF s.j < Len(s.doc) THEN [s EXCEPT !.j = @ + 1]
    ELSE NextSource(hh, s)

\* The end of an iteration of the loop of readKeys, whether it stored the
\* record or rejected it: the next record, or return nil after the last
AfterRecord(hh, s, stored) ==
    IF s.j < Len(s.doc) THEN [s EXCEPT !.j = @ + 1] ELSE NextSource(hh, s)

\* A variant of Store that replaces the whole map by the one entry
StoreAlone(ks, kid, key) == [k \in DOMAIN ks |-> IF k = kid THEN key ELSE NoKey]

\* A variant of Store that keeps the entry the map already holds
StoreIfAbsent(ks, kid, key) == IF ks[kid] # NoKey THEN ks ELSE [ks EXCEPT ![kid] = key]

\* A variant of Store that writes the modulus and leaves the exponent
StoreModulusOnly(ks, kid, key) == [ks EXCEPT ![kid] = [N |-> key.N, E |-> ks[kid].E]]

\* A variant of Store that removes the entry when it holds another key
StoreDropsOnConflict(ks, kid, key) ==
    IF ks[kid] \notin {NoKey, key} THEN [ks EXCEPT ![kid] = NoKey]
    ELSE [ks EXCEPT ![kid] = key]

\* h.keys.Store(keyData.Kid, key): the map after it
Store(ks, kid, key) == [ks EXCEPT ![kid] = key]

\* One iteration of the loop of readKeys over the records of the document
ReadKeys(r) ==
    /\ req[r].pc = "readKeys"
    /\ LET s == req[r]
           keyData == s.doc[s.j]
           res == ReadKey(keyData)
       IN  /\ keys' = IF res.store THEN Store(keys, keyData.Kid, res.key) ELSE keys
           /\ req' = [req EXCEPT ![r] =
                 AfterRecord(h, IF res.store
                                THEN [s EXCEPT !.stored =
                                         Append(@, [source |-> s.i, record |-> s.j,
                                                    kid |-> keyData.Kid,
                                                    data |-> keyData])]
                                ELSE s, res.store)]
    /\ UNCHANGED <<b, built, h, buildErr, lastKeyReload, now, src, hist>>

\* A variant of MarkReload that leaves the time alone when the reload
\* stored no key
MarkReloadIfStored(r) ==
    /\ req[r].pc = "mark"
    /\ IF req[r].loadErr # Nil
       THEN /\ req' = [req EXCEPT ![r] = KeyError(@)]
            /\ UNCHANGED lastKeyReload
       ELSE /\ req' = [req EXCEPT ![r] = [@ EXCEPT !.pc = "reload"]]
            /\ lastKeyReload' = IF req[r].stored # << >> THEN now ELSE lastKeyReload
    /\ UNCHANGED <<b, built, h, buildErr, keys, now, src, hist>>

\* loadKeys returned: its error is returned, or h.lastKeyReload = time.Now()
MarkReload(r) ==
    /\ req[r].pc = "mark"
    /\ IF req[r].loadErr # Nil
       THEN /\ req' = [req EXCEPT ![r] = KeyError(@)]
            /\ UNCHANGED lastKeyReload
       ELSE /\ req' = [req EXCEPT ![r] = [@ EXCEPT !.pc = "reload"]]
            /\ lastKeyReload' = now
    /\ UNCHANGED <<b, built, h, buildErr, keys, now, src, hist>>

\* key, ok = h.keys.Load(kid) after the reload, and the rest of the request
Reload(r) ==
    /\ req[r].pc = "reload"
    /\ LET s == [req[r] EXCEPT !.loads = @ + 1]
           key == keys[s.kid]
       IN  req' = [req EXCEPT ![r] = IF key # NoKey THEN AfterKey(h, s, key, now)
                                     ELSE KeyError(s)]
    /\ UNCHANGED <<b, built, h, buildErr, keys, lastKeyReload, now, src, hist>>

\* ServeHTTP returns
Return(r) ==
    /\ req[r].pc = "done"
    /\ req' = [req EXCEPT ![r] = Idle]
    /\ UNCHANGED <<b, built, h, buildErr, keys, lastKeyReload, now, src, hist>>

\* A minute passes
Tick ==
    /\ now < MaxTime
    /\ now' = now + 1
    /\ UNCHANGED <<b, built, h, buildErr, keys, lastKeyReload, src, req, hist>>

\* The owner of a source replaces what it serves
SourceChange ==
    /\ \E k \in 1..Len(Sources(h)) :
       \E c \in IF k <= Len(h.keysFiles) THEN FileContents ELSE URLContents :
          /\ c # src[Sources(h)[k]]
          /\ src' = [src EXCEPT ![Sources(h)[k]] = c]
    /\ UNCHANGED <<b, built, h, buildErr, keys, lastKeyReload, now, req, hist>>

-----------------------------------------------------------------------------
(* Specifications                                                          *)

\* The builders the request specifications build their handler from
BaseBuilder ==
    [logger |-> TRUE, publicPaths |-> <<"^/public(/.*)?$">>,
     keysFiles |-> <<"/keys.json">>, keysURLs |-> <<"HTTPS://sso/certs">>,
     aclFiles |-> << >>, next |-> TRUE]
ACLBuilder == [BaseBuilder EXCEPT !.aclFiles = <<"/acl.yaml">>]

\* The state after Build returned a handler for the builder bb
InitHandler(bb) ==
    /\ b = bb
    /\ built = TRUE
    /\ h = Build(bb).handler
    /\ buildErr = Build(bb).err
    /\ keys = [k \in Kids |-> NoKey]
    /\ lastKeyReload = ZeroTime
    /\ now = 1
    /\ req = [r \in Slots |-> Idle]
    /\ hist = << >>

\* Requests served one after the other, while time passes and the sources
\* change
Init ==
    /\ \E bb \in {BaseBuilder, ACLBuilder} : InitHandler(bb)
    /\ src = [n \in SourceNames |->
                IF n = "/keys.json" THEN Document(<<K1uw>>) ELSE BrokenBody]

NoneInside == \A r \in Slots : req[r].pc = "idle"

Next ==
    \/ NoneInside /\ Serve(FirstSlot, Inputs)
    \/ LoadKey(FirstSlot)
    \/ CheckReload(FirstSlot)
    \/ OpenSource(FirstSlot)
    \/ Respond(FirstSlot)
    \/ ReadKeys(FirstSlot)
    \/ MarkReload(FirstSlot)
    \/ Reload(FirstSlot)
    \/ Return(FirstSlot)
    \/ Tick
    \/ SourceChange

Spec == Init /\ [][Next]_vars

-----------------------------------------------------------------------------
(* The builder: its options and Build                                      *)

\* Logger(value) and Next(value); FALSE is nil
Logger ==
    /\ ~built
    /\ \E value \in BOOLEAN : b' = [b EXCEPT !.logger = value]
    /\ UNCHANGED <<built, h, buildErr, keys, lastKeyReload, now, src, req, hist>>

NextHandler ==
    /\ ~built
    /\ \E value \in BOOLEAN : b' = [b EXCEPT !.next = value]
    /\ UNCHANGED <<built, h, buildErr, keys, lastKeyReload, now, src, req, hist>>

\* Public(value) appends the expression
Public ==
    /\ ~built
    /\ Len(b.publicPaths) < MaxPublic
    /\ \E value \in PublicPatterns : b' = [b EXCEPT !.publicPaths = Append(@, value)]
    /\ UNCHANGED <<built, h, buildErr, keys, lastKeyReload, now, src, req, hist>>

\* KeysFile(value), KeysURL(value) and ACLFile(value) append a value that is
\* not empty
KeysFile ==
    /\ ~built
    /\ Len(b.keysFiles) < MaxKeysFiles
    /\ \E value \in KeysFilePaths \cup {""} :
          b' = IF value # "" THEN [b EXCEPT !.keysFiles = Append(@, value)] ELSE b
    /\ UNCHANGED <<built, h, buildErr, keys, lastKeyReload, now, src, req, hist>>

KeysURL ==
    /\ ~built
    /\ Len(b.keysURLs) < MaxKeysURLs
    /\ \E value \in KeysURLAddrs \cup {""} :
          b' = IF value # "" THEN [b EXCEPT !.keysURLs = Append(@, value)] ELSE b
    /\ UNCHANGED <<built, h, buildErr, keys, lastKeyReload, now, src, req, hist>>

ACLFile ==
    /\ ~built
    /\ Len(b.aclFiles) < MaxACLFiles
    /\ \E value \in ACLFilePaths \cup {""} :
          b' = IF value # "" THEN [b EXCEPT !.aclFiles = Append(@, value)] ELSE b
    /\ UNCHANGED <<built, h, buildErr, keys, lastKeyReload, now, src, req, hist>>

\* Build()
DoBuild ==
    /\ ~built
    /\ built' = TRUE
    /\ h' = Build(b).handler
    /\ buildErr' = Build(b).err
    /\ UNCHANGED <<b, keys, lastKeyReload, now, src, req, hist>>

\* The builder from NewHandler to Build
InitBuild ==
    /\ b = NewHandler
    /\ built = FALSE
    /\ h = NoHandler
    /\ buildErr = Nil
    /\ keys = [k \in Kids |-> NoKey]
    /\ lastKeyReload = ZeroTime
    /\ now = 1
    /\ src = [n \in SourceNames |-> Unavailable]
    /\ req = [r \in Slots |-> Idle]
    /\ hist = << >>

NextBuild == Logger \/ NextHandler \/ Public \/ KeysFile \/ KeysURL \/ ACLFile \/ DoBuild

SpecBuild == InitBuild /\ [][NextBuild]_vars

-----------------------------------------------------------------------------
(* The first request of a handler whose keys file holds any document       *)

LoadInputs ==
    {[path |-> "/api/clusters_mgmt/v1/clusters", header |-> BearerHeader, token |-> TokenK1,
      bodyErr |-> Nil]}

InitLoad ==
    /\ InitHandler(BaseBuilder)
    /\ \E d \in AllDocuments :
          src = [n \in SourceNames |->
                    IF n = "/keys.json" THEN d
                    ELSE IF n = "HTTPS://sso/certs" THEN Document(<<K2ec>>)
                    ELSE Unavailable]

NextLoad ==
    \/ Serve(FirstSlot, LoadInputs)
    \/ LoadKey(FirstSlot)
    \/ CheckReload(FirstSlot)
    \/ OpenSource(FirstSlot)
    \/ Respond(FirstSlot)
    \/ ReadKeys(FirstSlot)
    \/ MarkReload(FirstSlot)
    \/ Reload(FirstSlot)

SpecLoad == InitLoad /\ [][NextLoad]_vars

-----------------------------------------------------------------------------
(* Properties of Build                                                     *)

\* A keys URL that url.Parse refuses or whose scheme is not https
BadKeysURL(addr) == ParseURL[addr].err # Nil \/ ToLower(ParseURL[addr].scheme) # "https"

BuildFailed == built /\ ~h.ok /\ buildErr # Nil

\* C6: when a configured keys URL is invalid or does not use HTTPS, Build
\* fails and returns no handler, whatever the other options are.
C6_BadKeysURLFailsBuild ==
    (built /\ \E k \in 1..Len(b.keysURLs) : BadKeysURL(b.keysURLs[k])) => BuildFailed

\* A pattern named by an ACL file of the builder does not compile
BadACLPattern(bb) ==
    \E k \in 1..Len(bb.aclFiles) :
       \E n \in 1..Len(ACLFileData[bb.aclFiles[k]].items) :
          CompileErr(ACLFileData[bb.aclFiles[k]].items[n].Pattern) # Nil

\* C7: Build fails and returns no handler when the logger or the next
\* handler is missing, when there is no key source, when a keys file does not
\* exist or is not regular, or when a public or ACL pattern does not compile;
\* and Build returns a handler only with a nil error.
C7_BuildValidatesOptions ==
    built =>
       /\ ( \/ ~b.logger
            \/ ~b.next
            \/ Len(b.keysFiles) + Len(b.keysURLs) = 0
            \/ \E k \in 1..Len(b.keysFiles) : FileKind[b.keysFiles[k]] # "regular"
            \/ \E k \in 1..Len(b.publicPaths) : CompileErr(b.publicPaths[k]) # Nil
            \/ BadACLPattern(b) ) => BuildFailed
       /\ h.ok => buildErr = Nil

-----------------------------------------------------------------------------
(* Properties of the key loader                                            *)

\* A record with every field readKeys requires, of the supported type
CompleteRSA(keyData) ==
    /\ keyData.Kid # "" /\ keyData.Kty # "" /\ keyData.Alg # ""
    /\ keyData.N # "" /\ keyData.E # ""
    /\ keyData.Kty = "RSA"

\* The records the sources serve
Served == UNION {{src[n].keys[k] : k \in 1..Len(src[n].keys)} : n \in SourceNames}

\* C8: the key store holds a key for an identifier only if a loaded record
\* with that identifier had a non-empty kid, kty, alg, n and e and the key
\* type RSA.
C8_OnlyCompleteRSAKeysStored ==
    \A kid \in Kids :
       keys[kid] # NoKey => \E keyData \in Served : keyData.Kid = kid /\ CompleteRSA(keyData)

\* A record readKeys must store: complete, RSA, with n and e in base64
ValidKeyData(keyData) ==
    CompleteRSA(keyData) /\ B64Err(keyData.N) = Nil /\ B64Err(keyData.E) = Nil

\* The request has read the whole document of the first source
ReadFirstSource(s) ==
    \/ s.pc \in {"loadKeys", "fetch"} /\ s.i > 1
    \/ s.pc = "readKeys" /\ s.i > 1
    \/ s.pc \in {"mark", "reload"}
    \/ s.pc = "done" /\ s.reloads > 0

\* C9: a rejected record does not stop the load of its document: after
\* readKeys every valid record of the document, before or after a rejected
\* one, has been stored, the key store holds a key for it, and readKeys
\* returned no error.
C9_RejectedRecordDoesNotStopLoad ==
    LET s == req[FirstSlot]
        doc == src[Sources(h)[1]]
    IN  (ReadFirstSource(s) /\ SourceErr(doc) = Nil) =>
           /\ \A j \in 1..Len(doc.keys) :
                 ValidKeyData(doc.keys[j]) =>
                    /\ \E k \in 1..Len(s.stored) :
                          s.stored[k].source = 1 /\ s.stored[k].record = j
                    /\ keys[doc.keys[j].Kid] # NoKey
           /\ \A k \in 1..Len(s.failed) : s.failed[k] # Sources(h)[1]

\* Reached: a document whose first record is rejected and whose second
\* record is valid has been read, and the second record is stored
C9_Witness ==
    LET s == req[FirstSlot]
        doc == src[Sources(h)[1]]
    IN  /\ ReadFirstSource(s)
        /\ Len(doc.keys) = 2
        /\ ~ValidKeyData(doc.keys[1]) /\ ~ReadKey(doc.keys[1]).store
        /\ ValidKeyData(doc.keys[2])
        /\ \E k \in 1..Len(s.stored) : s.stored[k].record = 2
        /\ keys[doc.keys[2].Kid] = KeyUW


\* The request has left loadKeys
LeftLoadKeys(s) == s.pc \in {"mark", "reload"} \/ (s.pc = "done" /\ s.reloads > 0)

\* C10: loadKeys attempts every source once, the files and then the URLs,
\* also after a source failed, and returns no error; a request that finds
\* no key after the reload is answered as for any key miss.
C10_LoadKeysTriesEverySource ==
    \A r \in Slots :
       LET s == req[r] IN
       /\ s.pc = "loadKeys" => s.attempted = SubSeq(Sources(h), 1, s.i - 1)
       /\ s.pc \in {"fetch", "readKeys"} => s.attempted = SubSeq(Sources(h), 1, s.i)
       /\ LeftLoadKeys(s) =>
             /\ s.attempted = h.keysFiles \o h.keysURLs
             /\ s.loadErr = Nil
             /\ \A k \in 1..Len(s.failed) : \E n \in 1..Len(s.attempted) :
                   s.failed[k] = s.attempted[n]
       /\ (s.pc = "done" /\ s.reloads > 0 /\ s.key = NoKey) =>
             /\ s.loads = 2
             /\ s.response.reason = "Bearer token can't be verified"

\* Reached: loadKeys returned after its first source failed and a record of
\* its second source was stored
C10_Witness ==
    \E r \in Slots :
       LET s == req[r] IN
       /\ s.pc = "mark"
       /\ s.failed = <<Sources(h)[1]>>
       /\ \E k \in 1..Len(s.stored) : s.stored[k].source = 2

\* C4: of two misses handled one after the other within one minute, at most
\* one starts a reload, and a reload logs each source at most once.
C4_ReloadRateLimited ==
    /\ Len(hist) = 2 => hist[2] - hist[1] > Minute
    /\ \A r \in Slots :
          \A k, n \in 1..Len(req[r].attempted) :
             req[r].attempted[k] = req[r].attempted[n] => k = n

\* Reached: a miss within one minute after a miss that reloaded was answered
\* without a reload
C4_Witness ==
    LET s == req[FirstSlot] IN
    /\ s.pc = "done" /\ s.loads = 1 /\ s.reloads = 0 /\ s.key = NoKey /\ s.sendError = 1
    /\ Len(hist) >= 1
    /\ now - hist[Len(hist)] <= Minute

-----------------------------------------------------------------------------
(* One request, over every input of the model                              *)

AllClaims ==
    [typ : {Absent, Num(1), Str("Bearer"), Str("BEARER"), Str("Refresh")},
     iat : {Absent, Str("x"), Num(-1), Num(Far)},
     exp : {Absent, Str("x"), Num(-1), Num(0), Num(Far)},
     nbf : {Absent, Num(Far)},
     email : {Absent, Num(1), Str("a@example.com"), Str("a@other.com")},
     sub : {Absent, Str("myuser")}]

\* Every token: the tokens that reach the checks of the claims with every
\* claim set, the others with one
AllTokens ==
    {NoToken}
    \cup {Token("ok", "RS256", Str("k1"), signer, claims) :
            signer \in {KeyUW, KeyJW}, claims \in AllClaims}
    \cup {Token("ok", alg, kid, KeyUW, GoodClaims) :
            alg \in {"RS256", "none", ""},
            kid \in {Absent, Num(7), Str(""), Str("k1"), Str("k2")}}

\* Every Authorization header
AllHeaders ==
    {<< >>,
     BearerWord,
     BearerWord \o <<" ">>,
     BearerHeader,
     <<"b", "e", "a", "r", "e", "r", "\t", " ", TokenChar>>,
     <<"B", "E", "A", "R", "E", "R", " ", TokenChar>>,
     <<"B", "a", "s", "i", "c", " ", TokenChar>>,
     <<" ">> \o BearerHeader,
     BearerWord \o <<" ", TokenChar, "\n">>,
     BearerWord \o <<" ", TokenChar, TokenChar>>,
     <<TokenChar>>}

AllInputs ==
    {[path |-> "/api/clusters_mgmt/v1/clusters", header |-> BearerHeader, token |-> t, bodyErr |-> Nil] :
        t \in AllTokens}
    \cup {[path |-> p, header |-> hd, token |-> t, bodyErr |-> Nil] :
            p \in Paths, hd \in AllHeaders, t \in {TokenK1, TokenExpired, NoToken}}

\* The handler is new, or has loaded its keys less than a minute ago
InitRequest ==
    /\ \E bb \in {BaseBuilder, ACLBuilder} :
          /\ b = bb
          /\ built = TRUE
          /\ h = Build(bb).handler
          /\ buildErr = Build(bb).err
    /\ \E warm \in BOOLEAN :
          /\ keys = [k \in Kids |-> IF warm /\ k = "k1" THEN KeyUW ELSE NoKey]
          /\ lastKeyReload = IF warm THEN 1 ELSE ZeroTime
          /\ hist = IF warm THEN <<1>> ELSE << >>
    /\ now = 1
    /\ src = [n \in SourceNames |->
                IF n = "/keys.json" THEN Document(<<K1uw>>) ELSE BrokenBody]
    /\ req = [r \in Slots |-> Idle]

NextRequest ==
    \/ Serve(FirstSlot, AllInputs)
    \/ LoadKey(FirstSlot)
    \/ CheckReload(FirstSlot)
    \/ OpenSource(FirstSlot)
    \/ Respond(FirstSlot)
    \/ ReadKeys(FirstSlot)
    \/ MarkReload(FirstSlot)
    \/ Reload(FirstSlot)

SpecRequest == InitRequest /\ [][NextRequest]_vars

-----------------------------------------------------------------------------
(* Requests served at the same time                                        *)

ConcurrentInputs ==
    {[path |-> "/public/info", header |-> << >>, token |-> NoToken, bodyErr |-> Nil]}
    \cup {[path |-> "/api/clusters_mgmt/v1/clusters", header |-> BearerHeader, token |-> t, bodyErr |-> Nil] :
            t \in {TokenK1, TokenK2, TokenK1jw}}

NextConcurrent ==
    \/ \E r \in Slots :
          \/ Serve(r, ConcurrentInputs)
          \/ LoadKey(r)
          \/ CheckReload(r)
          \/ OpenSource(r)
          \/ Respond(r)
          \/ ReadKeys(r)
          \/ MarkReload(r)
          \/ Reload(r)
          \/ Return(r)
    \/ Tick

\* A new handler whose keys URL serves any of its contents
InitConcurrent ==
    /\ InitHandler(BaseBuilder)
    /\ \E c \in URLContents :
          src = [n \in SourceNames |->
                    IF n = "/keys.json" THEN Document(<<K1uw>>)
                    ELSE IF n = "HTTPS://sso/certs" THEN c
                    ELSE Unavailable]

SpecConcurrent == InitConcurrent /\ [][NextConcurrent]_vars

-----------------------------------------------------------------------------
(* Properties of a request                                                 *)

\* C1: a request ends in exactly one of two ways: the next handler was
\* called once and no error was sent, or one 401 error was sent and the next
\* handler was not called; before its end it has done neither.
C1_ExactlyOneOutcome ==
    \A r \in Slots :
       LET s == req[r] IN
       /\ s.pc = "done" =>
             \/ /\ s.next = 1 /\ s.passed.called
                /\ s.sendError = 0 /\ s.response = NoResponse
             \/ /\ s.next = 0 /\ ~s.passed.called
                /\ s.sendError = 1 /\ s.response.status = 401
       /\ s.pc # "done" => s.next = 0 /\ s.sendError = 0 /\ s.response = NoResponse

\* Reached: a request whose key was loaded and verified its token was denied
\* by the ACL
C1_Witness ==
    LET s == req[FirstSlot] IN
    /\ s.pc = "done" /\ s.reloads = 1 /\ s.key = KeyUW
    /\ s.sendError = 1 /\ s.next = 0
    /\ s.response.reason = "Access denied"

\* The path matches a public pattern given to the builder
PublicPath(path) == \E k \in 1..Len(b.publicPaths) : path \in Language[b.publicPaths[k]]

\* The header is a scheme equal to Bearer in any case, white space and the
\* serialization of the token
CarriesBearerToken(header) ==
    \E p \in 1..Len(header) :
       /\ p + 2 <= Len(header)
       /\ [k \in 1..p |-> LowerChar(header[k])] = <<"b", "e", "a", "r", "e", "r">>
       /\ \A k \in (p + 1)..(Len(header) - 1) : header[k] \in Whitespace
       /\ header[Len(header)] = TokenChar

\* The token is well formed, names an RSA method and a kid the key store
\* holds a key for, is signed with that key and is valid at the time t
VerifiesAgainstStore(token, t) ==
    /\ token.form = "ok" /\ token.alg = "RS256"
    /\ token.kid.t = "string"
    /\ keys[token.kid.s] # NoKey
    /\ keys[token.kid.s] = token.signer
    /\ (token.claims.exp.t = "number" /\ token.claims.exp.n # 0) => t <= token.claims.exp.n
    /\ (token.claims.iat.t = "number" /\ token.claims.iat.n # 0) => token.claims.iat.n <= t
    /\ (token.claims.nbf.t = "number" /\ token.claims.nbf.n # 0) => token.claims.nbf.n <= t

\* typ is a string equal to Bearer in any case, iat and exp are numbers
ClaimsShaped(claims) ==
    /\ claims.typ.t = "string" /\ claims.typ.s \in {"Bearer", "BEARER", "bearer"}
    /\ claims.iat.t = "number"
    /\ claims.exp.t = "number"

\* The ACL of the builder's files is empty or one of its items matches
ACLAllows(claims) ==
    \/ \A c \in ACLClaims : h.aclItems[c] = NoPattern
    \/ \E c \in ACLClaims :
          /\ h.aclItems[c] # NoPattern
          /\ claims[c].t = "string"
          /\ claims[c].s \in Language[h.aclItems[c]]

\* C2: a request for a path that is not public reaches the next handler if
\* and only if its header carries a Bearer credential, the token verifies
\* against a key of the key store, typ, iat and exp have the required shape
\* and the ACL matches; and the request passed on has the token attached.
C2_ForwardedIffAuthenticated ==
    \A r \in Slots :
       LET s == req[r] IN
       (s.pc = "done" /\ ~PublicPath(s.in.path)) =>
          /\ s.next = 1 <=>
                /\ CarriesBearerToken(s.in.header)
                /\ VerifiesAgainstStore(s.in.token, now)
                /\ ClaimsShaped(s.in.token.claims)
                /\ ACLAllows(s.in.token.claims)
          /\ s.next = 1 =>
                /\ s.passed = [called |-> TRUE, withToken |-> TRUE, token |-> s.in.token]
                /\ s.key = keys[s.in.token.kid.s]

\* Reached: a request with a valid token was passed on, with an ACL in force
C2_Witness ==
    LET s == req[FirstSlot] IN
    /\ s.pc = "done" /\ ~PublicPath(s.in.path)
    /\ h.aclItems["email"] # NoPattern
    /\ s.next = 1 /\ s.passed.withToken /\ s.passed.token = s.in.token
    /\ s.reloads = 1

\* C3: a request for a public path reaches the next handler unchanged,
\* whatever its Authorization header is: the header is not read, no error is
\* sent, the key store is not read and no reload starts.
C3_PublicPathBypasses ==
    \A r \in Slots :
       LET s == req[r] IN
       (s.pc # "idle" /\ PublicPath(s.in.path)) =>
          /\ s.pc = "done"
          /\ s.next = 1 /\ s.passed = [called |-> TRUE, withToken |-> FALSE, token |-> NoToken]
          /\ s.sendError = 0 /\ s.response = NoResponse
          /\ ~s.headerRead
          /\ s.loads = 0 /\ s.reloads = 0
          /\ s.attempted = << >> /\ s.stored = << >>

\* Reached: a request for a public path with a header that is no Bearer
\* header was passed on
C3_Witness ==
    LET s == req[FirstSlot] IN
    /\ s.pc = "done" /\ PublicPath(s.in.path)
    /\ s.in.header = <<TokenChar>>
    /\ s.next = 1

-----------------------------------------------------------------------------
(* Properties of the shared state                                          *)

\* The access to the shared state of the handler a request is about to
\* make: the field, whether it writes, and whether it goes through the
\* methods of sync.Map
Access(s) ==
    CASE s.pc \in {"load", "reload"} -> [field |-> "keys", write |-> FALSE, sync |-> TRUE]
      [] s.pc = "readKeys" -> [field |-> "keys", write |-> TRUE, sync |-> TRUE]
      [] s.pc = "since" -> [field |-> "lastKeyReload", write |-> FALSE, sync |-> FALSE]
      [] s.pc = "mark" -> [field |-> "lastKeyReload", write |-> TRUE, sync |-> FALSE]
      [] OTHER -> [field |-> "", write |-> FALSE, sync |-> TRUE]

\* Two requests are about to access the same field, one of them writes, and
\* nothing orders the two accesses
DataRace(r, q) ==
    /\ r # q
    /\ Access(req[r]).field # ""
    /\ Access(req[r]).field = Access(req[q]).field
    /\ Access(req[r]).write \/ Access(req[q]).write
    /\ ~(Access(req[r]).sync /\ Access(req[q]).sync)

\* C5: no two requests access the last-reload time or the key map at the
\* same time, one of them writing, without synchronization.
C5_NoDataRace == \A r, q \in Slots : ~DataRace(r, q)

-----------------------------------------------------------------------------
(* Properties of the Authorization header                                  *)

\* The header is a scheme of letters and digits, white space, and a
\* credential that runs to the end of the header without a line break
SchemeAndCredential(header) ==
    \E p \in 1..Len(header) : \E w \in 1..Len(header) :
       /\ p + w <= Len(header)
       /\ \A k \in 1..p : header[k] \in Letters
       /\ \A k \in (p + 1)..(p + w) : header[k] \in Whitespace
       /\ \A k \in (p + w + 1)..Len(header) : header[k] # "\n"

\* The scheme of such a header, in lower case
LowerScheme(header) ==
    LET p == CHOOSE p \in 1..Len(header) :
                /\ \A k \in 1..p : header[k] \in Letters
                /\ header[p + 1] \in Whitespace
    IN  [k \in 1..p |-> LowerChar(header[k])]

\* The reasons of the extraction stage
HeaderReasons ==
    {"Request doesn't contain the 'Authorization' header",
     "Authorization header is malformed",
     "Authentication type isn't supported"}

\* The request was refused with the reason, before any look at the token
\* or at the key store
RefusedWith(s, reason) ==
    /\ s.sendError = 1 /\ s.next = 0
    /\ s.response.status = 401 /\ s.response.reason = reason
    /\ s.loads = 0 /\ s.reloads = 0

\* C11: for a path that is not public, an empty header is answered 401 as
\* missing, a header that is not scheme, white space, credential as
\* malformed, a scheme other than Bearer in any case as unsupported, and a
\* scheme Bearer in any case goes on to the validation of the token.
C11_HeaderClassified ==
    \A r \in Slots :
       LET s == req[r]
           header == s.in.header
       IN  (s.pc = "done" /\ ~PublicPath(s.in.path)) =>
              /\ header = << >> =>
                    RefusedWith(s, "Request doesn't contain the 'Authorization' header")
              /\ (header # << >> /\ ~SchemeAndCredential(header)) =>
                    RefusedWith(s, "Authorization header is malformed")
              /\ (SchemeAndCredential(header)
                  /\ LowerScheme(header) # <<"b", "e", "a", "r", "e", "r">>) =>
                    RefusedWith(s, "Authentication type isn't supported")
              /\ (SchemeAndCredential(header)
                  /\ LowerScheme(header) = <<"b", "e", "a", "r", "e", "r">>) =>
                    /\ s.response.reason \notin HeaderReasons
                    /\ s.next = 1 \/ s.response.reason # ""

\* Reached: a header with the scheme in upper case and a good token was
\* passed on
C11_Witness ==
    LET s == req[FirstSlot] IN
    /\ s.pc = "done" /\ ~PublicPath(s.in.path)
    /\ s.in.header = <<"B", "E", "A", "R", "E", "R", " ", TokenChar>>
    /\ s.next = 1

-----------------------------------------------------------------------------
(* Properties of selectKey                                                 *)

\* The token of the request reaches the key function of the parser
ReachesSelectKey(s) ==
    /\ ~PublicPath(s.in.path)
    /\ CarriesBearerToken(s.in.header)
    /\ s.in.token.form = "ok" /\ s.in.token.alg \in {"RS256", "none"}

\* The request was refused because selectKey failed
RefusedUnverified(s) ==
    /\ s.sendError = 1 /\ s.next = 0 /\ ~s.passed.called
    /\ s.response.status = 401
    /\ s.response.reason = "Bearer token can't be verified"
    /\ s.key = NoKey

\* C12: selectKey fails when the kid is absent or is no string; otherwise,
\* when it returns after the reload that ran or was skipped, it returns the
\* key the store holds for the kid at that time and fails when the store
\* holds none; every failure is a 401 and the request is not passed on.
C12_SelectKeyAfterReload ==
    [][\A r \in Slots :
          (req[r].pc # "done" /\ req'[r].pc = "done" /\ ReachesSelectKey(req'[r])) =>
             LET s == req'[r]
                 kid == s.in.token.kid
             IN  /\ kid.t # "string" => RefusedUnverified(s) /\ s.loads = 0
                 /\ (kid.t = "string" /\ keys'[kid.s] = NoKey) => RefusedUnverified(s)
                 /\ (kid.t = "string" /\ keys'[kid.s] # NoKey) =>
                       /\ s.key = keys'[kid.s]
                       /\ ~RefusedUnverified(s)]_vars

-----------------------------------------------------------------------------
(* Properties of checkToken                                                *)

\* The request reaches checkToken: its path is not public and its header
\* has the scheme Bearer
ReachesCheckToken(s) ==
    /\ ~PublicPath(s.in.path)
    /\ SchemeAndCredential(s.in.header)
    /\ LowerScheme(s.in.header) = <<"b", "e", "a", "r", "e", "r">>

\* The failures of the verification of the token of a request, by what the
\* token and the key store are
TokenFailures(s) ==
    LET token == s.in.token IN
    (IF ~CarriesBearerToken(s.in.header) \/ token.form # "ok"
        THEN {"malformed"} ELSE {})
    \cup (IF \/ token.alg \notin {"RS256", "none"}
             \/ token.kid.t # "string"
             \/ keys[token.kid.s] = NoKey
        THEN {"unverifiable"} ELSE {})
    \cup (IF token.alg # "RS256" \/ keys[token.kid.s] # token.signer
        THEN {"signature"} ELSE {})
    \cup (IF token.claims.exp.t = "number" /\ token.claims.exp.n < now
        THEN {"expired"} ELSE {})
    \cup (IF token.claims.iat.t = "number" /\ token.claims.iat.n > now
        THEN {"issued in the future"} ELSE {})
    \cup (IF token.claims.nbf.t = "number" /\ token.claims.nbf.n > now
        THEN {"not valid yet"} ELSE {})

\* The reason for the first failure in the order of the switch
FirstFailureReason(failures) ==
    IF "malformed" \in failures THEN "Bearer token is malformed"
    ELSE IF "unverifiable" \in failures THEN "Bearer token can't be verified"
    ELSE IF "signature" \in failures THEN "Signature of bearer token isn't valid"
    ELSE IF "expired" \in failures THEN "Bearer token is expired"
    ELSE IF "issued in the future" \in failures THEN "Bearer token was issued in the future"
    ELSE "Bearer token isn't valid yet"

TokenReasons ==
    {"Bearer token is malformed", "Bearer token can't be verified",
     "Signature of bearer token isn't valid", "Bearer token is expired",
     "Bearer token was issued in the future", "Bearer token isn't valid yet",
     "Bearer token isn't valid"}

\* C13: a token that fails verification is answered with one 401 whose
\* reason is that of its first failure in the order malformed, unverifiable,
\* invalid signature, expired, issued in the future, not yet valid; a token
\* with no failure gets none of these reasons.  In particular a correctly
\* signed token whose exp is in the past is answered as expired.
C13_TokenFailureReason ==
    \A r \in Slots :
       LET s == req[r] IN
       (s.pc = "done" /\ ReachesCheckToken(s)) =>
          /\ TokenFailures(s) # {} =>
                /\ s.sendError = 1 /\ s.next = 0 /\ s.response.status = 401
                /\ s.response.reason = FirstFailureReason(TokenFailures(s))
          /\ TokenFailures(s) = {} => s.response.reason \notin TokenReasons

-----------------------------------------------------------------------------
(* Properties of checkClaims                                               *)

\* The token of the request passed the verification of checkToken
Verified(s) ==
    /\ ReachesCheckToken(s) /\ CarriesBearerToken(s.in.header)
    /\ VerifiesAgainstStore(s.in.token, now)

\* The values of the claims of the model, as an error message shows them
ShownValues == {"1", "-1", "0", "x", "Refresh", "BEARER", "Bearer"}

\* The reasons of checkClaims that name the claim
ReasonsNaming(name) ==
    {"Bearer token doesn't contain required claim '" \o name \o "'"}
    \cup {"Bearer token claim '" \o name \o "' contains incorrect " \o kind
          \o " value '" \o v \o "'" : kind \in {"text", "time"}, v \in ShownValues}
    \cup (IF name = "typ"
          THEN {"Bearer token type '" \o v \o "' isn't supported" : v \in ShownValues}
          ELSE {})

\* The first claim, in the order typ, iat, exp, that has not the required
\* shape; "" when all three have
OffendingClaim(claims) ==
    IF ~(claims.typ.t = "string" /\ claims.typ.s \in {"Bearer", "BEARER", "bearer"})
    THEN "typ"
    ELSE IF claims.iat.t # "number" THEN "iat"
    ELSE IF claims.exp.t # "number" THEN "exp"
    ELSE ""

\* C14: a verified token whose typ is absent, no string or not Bearer in any
\* case, or whose iat or exp is absent or no number, is refused with one 401
\* that names the first such claim in the order typ, iat, exp, and is not
\* passed on; a token with the three claims in shape gets no such reason.
C14_ClaimShapeEnforced ==
    \A r \in Slots :
       LET s == req[r]
           claim == OffendingClaim(s.in.token.claims)
       IN  (s.pc = "done" /\ Verified(s)) =>
              /\ claim # "" =>
                    /\ s.sendError = 1 /\ s.next = 0 /\ ~s.passed.called
                    /\ s.response.status = 401
                    /\ s.response.reason \in ReasonsNaming(claim)
              /\ claim = "" =>
                    \A name \in {"typ", "iat", "exp"} :
                       s.response.reason \notin ReasonsNaming(name)

\* Reached: a verified token without exp, which the library accepts, was
\* refused with the reason that names exp
C14_Witness ==
    LET s == req[FirstSlot] IN
    /\ s.pc = "done" /\ Verified(s)
    /\ s.in.token.claims.exp = Absent /\ s.in.token.claims.iat.t = "number"
    /\ s.key = KeyUW
    /\ s.response.reason = "Bearer token doesn't contain required claim 'exp'"
    /\ s.next = 0

-----------------------------------------------------------------------------
(* Properties of checkACL                                                  *)

\* The request reaches checkACL: its token is verified and its claims typ,
\* iat and exp have the required shape
ReachesCheckACL(s) == Verified(s) /\ OffendingClaim(s.in.token.claims) = ""

\* C15: checkACL allows a request when the ACL is empty, and otherwise if
\* and only if an item of the ACL names a claim of the token that is a
\* string its pattern matches, in whatever order the items are visited; a
\* request it denies gets one 401 with the reason "Access denied" and is not
\* passed on.
C15_ACLDecision ==
    \A r \in Slots :
       LET s == req[r]
           claims == s.in.token.claims
       IN  (s.pc = "done" /\ ReachesCheckACL(s)) =>
              /\ \A order \in ACLOrders(h.aclItems) :
                    (ACLLen(h.aclItems) = 0 \/ CheckACLInOrder(order, h.aclItems, claims))
                       <=> ACLAllows(claims)
              /\ ACLAllows(claims) => s.next = 1 /\ s.sendError = 0
              /\ ~ACLAllows(claims) =>
                    /\ s.sendError = 1 /\ s.next = 0 /\ ~s.passed.called
                    /\ s.response.status = 401
                    /\ s.response.reason = "Access denied"

\* Reached: a request whose email no item matches and whose sub an item
\* matches was passed on
C15_Witness ==
    LET s == req[FirstSlot] IN
    /\ s.pc = "done" /\ ReachesCheckACL(s)
    /\ Cardinality(ACLOrders(h.aclItems)) = 2
    /\ s.in.token.claims.email = Str("a@other.com")
    /\ s.in.token.claims.sub = Str("myuser")
    /\ s.next = 1

-----------------------------------------------------------------------------
(* Properties of the key store across reloads                              *)

\* The request r makes a lookup of the key store in this step
Lookup(r) == req[r].pc \in {"load", "reload"} /\ req'[r].pc # req[r].pc

\* C16: keys are never evicted: an identifier the key store holds a key for
\* keeps one through every step of every request and reload, whatever the
\* sources serve by then, and a lookup of such an identifier succeeds.
C16_NoEviction ==
    [][/\ \A kid \in Kids : keys[kid] # NoKey => keys'[kid] # NoKey
       /\ \A r \in Slots :
             (Lookup(r) /\ keys[req[r].kid] # NoKey) =>
                req'[r].key = keys[req[r].kid] /\ req'[r].key # NoKey]_vars

\* Reached: a reload in which every source failed has ended, and the key
\* stored by an earlier reload is still there
C16_Witness ==
    LET s == req[FirstSlot] IN
    /\ s.pc = "done" /\ s.reloads = 1 /\ s.kid = "k2"
    /\ s.failed = Sources(h)
    /\ keys["k1"] # NoKey

\* The places in the log of stored records of the request that name the kid
StoredFor(s, kid) == {k \in 1..Len(s.stored) : s.stored[k].kid = kid}

\* The last of them
LastStoredFor(s, kid) ==
    CHOOSE k \in StoredFor(s, kid) : \A n \in StoredFor(s, kid) : n <= k

\* C17: a parsed key replaces the entry of its identifier: when loadKeys
\* has returned, the key held for an identifier that the reload stored is
\* the key of the last valid record with that identifier, the records being
\* processed in the order of the sources, files then URLs, and of each
\* document.
C17_LastRecordWins ==
    LET s == req[FirstSlot] IN
    s.pc = "mark" =>
       /\ \A k, n \in 1..Len(s.stored) :
             k < n =>
                \/ s.stored[k].source < s.stored[n].source
                \/ /\ s.stored[k].source = s.stored[n].source
                   /\ s.stored[k].record < s.stored[n].record
       /\ \A k \in 1..Len(s.stored) :
             (s.stored[k].source <= Len(h.keysFiles))
                <=> (Sources(h)[s.stored[k].source] \in KeysFilePaths)
       /\ \A kid \in Kids :
             StoredFor(s, kid) # {} =>
                keys[kid] = ParseKey(s.stored[LastStoredFor(s, kid)].data).key

\* Reached: a reload that stored the k1 of the file and then the other k1
\* of the URL has ended with the key of the URL in the store
C17_Witness ==
    LET s == req[FirstSlot] IN
    /\ s.pc = "mark" /\ s.kid = "k2"
    /\ Cardinality(StoredFor(s, "k1")) = 2
    /\ s.stored[1].data = K1uw /\ s.stored[2].data = K1jw
    /\ keys["k1"] = KeyJW

-----------------------------------------------------------------------------
(* Properties of lookups during a reload                                   *)

\* The request is inside loadKeys
Reloading(s) == s.pc \in {"loadKeys", "fetch", "readKeys"}

\* The keys of the records the sources serve for the identifier: modulus
\* and exponent of one record that readKeys stores
CompleteKeys(kid) ==
    {ParseKey(keyData).key : keyData \in {d \in Served : d.Kid = kid /\ ReadKey(d).store}}

\* C18: while a request reloads the keys, a lookup by another request
\* returns nothing, the key stored before or the whole key stored by the
\* reload, never a part of one; and no step of the reload removes a key, so
\* a key present when the reload started is found by every lookup during it.
C18_LookupDuringReload ==
    [][\A r \in Slots :
          Reloading(req[r]) =>
             /\ \A kid \in Kids :
                   /\ keys[kid] # NoKey => keys'[kid] # NoKey
                   /\ keys'[kid] # keys[kid] => keys'[kid] \in CompleteKeys(kid)
             /\ \A q \in Slots \ {r} :
                   Lookup(q) =>
                      /\ keys[req[q].kid] \in {NoKey} \cup CompleteKeys(req[q].kid)
                      /\ keys[req[q].kid] # NoKey => req'[q].key = keys[req[q].kid]
                      /\ keys[req[q].kid] = NoKey => req'[q].key = NoKey]_vars

\* Reached: a request found at its first lookup the key that a reload by
\* the other request, still inside loadKeys, had just stored
C18_Witness ==
    \E r \in Slots : \E q \in Slots \ {r} :
       /\ Reloading(req[r]) /\ req[r].stored # << >>
       /\ lastKeyReload = ZeroTime
       /\ req[q].pc = "done" /\ req[q].loads = 1 /\ req[q].reloads = 0
       /\ req[q].key = KeyUW /\ req[q].next = 1

-----------------------------------------------------------------------------
(* Properties of the fetch of a keys URL                                   *)

\* The request is inside loadKeysURL with a response: in readKeys, on the
\* records of a URL
InsideLoadKeysURL(s) == s.pc = "readKeys" /\ s.i > Len(h.keysFiles)

\* C20: every response body a fetch obtained is closed once when
\* loadKeysURL returns, whether readKeys stored the records, rejected some,
\* or failed to read or to parse the body: outside loadKeysURL a request
\* holds no open body and has closed as many as it got.
C20_BodyClosedOnce ==
    \A r \in Slots :
       LET s == req[r] IN
       /\ s.closed <= s.opened
       /\ s.body <=> InsideLoadKeysURL(s)
       /\ s.body => s.opened = s.closed + 1
       /\ ~s.body => s.opened = s.closed

\* Reached: a reload whose fetch got a body that could not be read has
\* ended, and the body was closed
C20_Witness ==
    LET s == req[FirstSlot] IN
    /\ s.pc = "done" /\ s.reloads = 1
    /\ src[h.keysURLs[1]] = BrokenBody
    /\ h.keysURLs[1] \in {s.failed[k] : k \in 1..Len(s.failed)}
    /\ s.opened = 1 /\ s.closed = 1

-----------------------------------------------------------------------------
(* Requests served at the same time while the keys URL is slow to answer   *)

FetchInputs ==
    {[path |-> "/public/info", header |-> << >>, token |-> NoToken, bodyErr |-> Nil]}
    \cup {[path |-> "/api/clusters_mgmt/v1/clusters", header |-> BearerHeader, token |-> t, bodyErr |-> Nil] :
            t \in {TokenK1, TokenK2}}

InitFetch ==
    /\ InitHandler(BaseBuilder)
    /\ src = [n \in SourceNames |->
                IF n = "/keys.json" THEN Document(<<K1uw>>)
                ELSE IF n = "HTTPS://sso/certs" THEN Document(<<K2uw>>)
                ELSE Unavailable]

NextFetch ==
    \E r \in Slots :
       \/ Serve(r, FetchInputs)
       \/ LoadKey(r)
       \/ CheckReload(r)
       \/ OpenSource(r)
       \/ Respond(r)
       \/ Cancel(r)
       \/ Abort(r)
       \/ ReadKeys(r)
       \/ MarkReload(r)
       \/ Reload(r)
       \/ Return(r)

\* A goroutine that can take a step of the handler takes it in the end, and
\* keysClient.Do returns once the context it was given is done.  Nothing
\* makes a request arrive, the server answer or the caller cancel.
FairFetch ==
    \A r \in Slots :
       /\ WF_vars(LoadKey(r))
       /\ WF_vars(CheckReload(r))
       /\ WF_vars(OpenSource(r))
       /\ WF_vars(Abort(r))
       /\ WF_vars(ReadKeys(r))
       /\ WF_vars(MarkReload(r))
       /\ WF_vars(Reload(r))

SpecFetch == InitFetch /\ [][NextFetch]_vars /\ FairFetch

\* The request has ended with a response: an error, or that of the next
\* handler
Answered(s) == s.pc = "done" /\ s.sendError + s.next = 1

\* C19: a request blocked in the fetch of a keys URL stalls no other: a
\* request for a public path ends in the call that serves it, and a request
\* whose key the store holds ends, also when the first stays blocked for
\* ever; and once the context of the blocked request is cancelled its fetch
\* ends and the request is answered.
C19_BlockedFetchDoesNotStall ==
    /\ [](\A q \in Slots :
             (req[q].pc # "idle" /\ PublicPath(req[q].in.path)) => Answered(req[q]))
    /\ \A r \in Slots : \A q \in Slots \ {r} :
          (req[r].pc = "fetch" /\ req[q].pc = "load" /\ keys[req[q].kid] # NoKey)
             ~> Answered(req[q])
    /\ \A r \in Slots :
          (req[r].pc = "fetch" /\ req[r].cancelled) ~> Answered(req[r])

\* Reached: while a request was blocked in the fetch the other was verified
\* with the key of the file and passed on, and the blocked request, once
\* cancelled, was answered with an error
C19_Witness ==
    \E r \in Slots : \E q \in Slots \ {r} :
       /\ req[r].pc = "done" /\ req[r].cancelled
       /\ req[r].failed = h.keysURLs
       /\ req[r].sendError = 1 /\ req[r].kid = "k2"
       /\ req[q].pc = "done" /\ req[q].loads = 1 /\ req[q].next = 1
       /\ lastKeyReload = now

-----------------------------------------------------------------------------
(* The response of sendError                                               *)

\* Paths that end at the version and at the service
ShortPaths == {"/api/clusters_mgmt/v1", "/api/clusters_mgmt"}

\* The error that builder.Build() returns inside sendError
BodyErrs == {Nil, "can't build"}

SendErrorInputs ==
    {[path |-> p, header |-> hd, token |-> t, bodyErr |-> e] :
        p \in Paths \cup ShortPaths, hd \in {<< >>, BearerHeader},
        t \in {TokenK1, TokenK2, TokenOther, TokenExpired, TokenNoExp, TokenNoKid},
        e \in BodyErrs}

NextSendError ==
    \/ Serve(FirstSlot, SendErrorInputs)
    \/ LoadKey(FirstSlot)
    \/ CheckReload(FirstSlot)
    \/ OpenSource(FirstSlot)
    \/ Respond(FirstSlot)
    \/ ReadKeys(FirstSlot)
    \/ MarkReload(FirstSlot)
    \/ Reload(FirstSlot)

SpecSendError == InitRequest /\ [][NextSendError]_vars

\* The messages of the stages of ServeHTTP
StageReasons ==
    HeaderReasons \cup TokenReasons \cup {"Access denied"}
    \cup UNION {ReasonsNaming(name) : name \in {"typ", "iat", "exp"}}

\* The prefix, service and version of the paths that have them
Located ==
    [p \in {"/api/clusters_mgmt/v1/clusters", "/api/clusters_mgmt/v1"} |->
        [href |-> <<"api", "clusters_mgmt", "v1", "errors", "401">>,
         code |-> <<"CLUSTERS-MGMT", "401">>,
         realm |-> <<"clusters_mgmt", "v1">>]]

\* C21: a request refused at any stage, whose error body was built, is
\* answered with status 401, the id "401" and the message of a stage; when
\* its path splits at "/" into four segments or more, the body has the link
\* /prefix/service/version/errors/401 and the code SERVICE-401, in upper
\* case with dashes, and the realm is service/version; when into fewer, the
\* link and the code are absent and the realm is empty.
C21_UniformErrorResponse ==
    \A r \in Slots :
        LET s == req[r] IN
        (s.sendError > 0 /\ s.in.bodyErr = Nil) =>
            /\ s.response.status = 401
            /\ s.response.id = "401"
            /\ s.response.reason \in StageReasons
            /\ IF s.in.path \in DOMAIN Located
               THEN /\ s.response.href = Located[s.in.path].href
                    /\ s.response.code = Located[s.in.path].code
                    /\ s.response.realm = Located[s.in.path].realm
               ELSE /\ s.response.href = << >>
                    /\ s.response.code = << >>
                    /\ s.response.realm = << >>

\* An ACL denial on a path of exactly four segments
C21_Witness ==
    LET s == req[FirstSlot] IN
    /\ s.pc = "done" /\ s.sendError = 1 /\ s.in.bodyErr = Nil
    /\ s.in.path = "/api/clusters_mgmt/v1"
    /\ s.response.reason = "Access denied"
    /\ s.response.realm = <<"clusters_mgmt", "v1">>

\* C22: when the error body cannot be built, sendError answers through the
\* panic responder and through nothing else.
C22_PanicResponseOnly ==
    \A r \in Slots :
        LET s == req[r] IN
        (s.sendError > 0 /\ s.in.bodyErr # Nil) => s.writes = <<"SendPanic">>

-----------------------------------------------------------------------------
(* The ACL of several documents                                            *)

\* The builder with its keys, before its public paths and its ACL files
InitACL ==
    /\ b = [BaseBuilder EXCEPT !.publicPaths = << >>]
    /\ built = FALSE
    /\ h = NoHandler
    /\ buildErr = Nil
    /\ keys = [k \in Kids |-> NoKey]
    /\ lastKeyReload = ZeroTime
    /\ now = 1
    /\ src = [n \in SourceNames |-> Unavailable]
    /\ req = [r \in Slots |-> Idle]
    /\ hist = << >>

NextACL == Public \/ ACLFile \/ DoBuild

SpecACL == InitACL /\ [][NextACL]_vars

\* The items of the documents, in the order of the files and, inside a
\* file, of the document
RECURSIVE ItemsInLoadOrder(_)
ItemsInLoadOrder(files) ==
    IF files = << >> THEN << >>
    ELSE ACLFileData[Head(files)].items \o ItemsInLoadOrder(Tail(files))

\* The places of the list that name the claim
Occurrences(claim, listData) ==
    {k \in 1..Len(listData) : listData[k].Claim = claim}

\* C23: the ACL of a handler built from several documents has, for every
\* claim name, the pattern of the last item that names it in load order,
\* and no pattern for a claim that no item names.
C23_LastACLPatternWins ==
    (built /\ buildErr = Nil) =>
        LET listData == ItemsInLoadOrder(b.aclFiles) IN
        \A claim \in ACLClaims :
            LET places == Occurrences(claim, listData) IN
            IF places = {} THEN h.aclItems[claim] = NoPattern
            ELSE \E last \in places :
                    /\ \A k \in places : k <= last
                    /\ h.aclItems[claim] = listData[last].Pattern

\* Two documents name email, the second one twice; the last pattern of the
\* second is the one kept
C23_Witness ==
    /\ built /\ buildErr = Nil
    /\ b.aclFiles = <<"/acl.yaml", "/acl2.yaml">>
    /\ h.aclItems["email"] = "^.*@other\\.com$"
    /\ h.aclItems["sub"] = "^myuser$"

-----------------------------------------------------------------------------
(* Requests and reloads that overlap                                       *)

\* The records of the sources in the order loadKeys reads them, those of a
\* source that fails left out
RECURSIVE RecordsInLoadOrder(_)
RecordsInLoadOrder(names) ==
    IF names = << >> THEN << >>
    ELSE (IF SourceErr(src[Head(names)]) = Nil THEN src[Head(names)].keys ELSE << >>)
         \o RecordsInLoadOrder(Tail(names))

\* The key store after one reload of a new handler, alone, from the sources
\* as they are
KeysAfterOneReload ==
    LET recs == RecordsInLoadOrder(Sources(h)) IN
    [kid \in Kids |->
        LET places == {k \in 1..Len(recs) : recs[k].Kid = kid /\ ReadKey(recs[k]).store}
        IN  IF places = {} THEN NoKey
            ELSE ReadKey(recs[CHOOSE k \in places : \A n \in places : n <= k]).key]

\* What a request got: whether it was passed on, and the reason of its 401
Outcome(s) == [next |-> s.next, sendError |-> s.sendError, reason |-> s.response.reason]

\* The outcome of the request served alone by a new handler at the time t
OutcomeAlone(in, t) ==
    LET s == Begin(h, in) IN
    IF s.pc = "done" THEN Outcome(s)
    ELSE IF KeysAfterOneReload[s.kid] = NoKey THEN Outcome(KeyError(s))
    ELSE Outcome(AfterKey(h, s, KeysAfterOneReload[s.kid], t))

\* C24: with the sources, the ACL and the clock fixed, a request ends as it
\* would if the handler served it alone, whichever requests were served
\* before it or are served at the same time.
C24_OutcomeIndependent ==
    [][\A r \in Slots :
          (req[r].pc # "done" /\ req'[r].pc = "done") =>
             Outcome(req'[r]) = OutcomeAlone(req'[r].in, now)]_vars


\* C25: requests that miss at the same time each start a reload, as the
\* time of the last reload is written when a reload has ended; with the
\* sources unchanged, once the reloads that overlap have all left loadKeys
\* the key store is the one that a single reload leaves.
C25_OverlappingReloadsHarmless ==
    (hist # << >> /\ \A r \in Slots : ~Reloading(req[r])) => keys = KeysAfterOneReload

\* Reached: two requests missed at the same minute, both reloaded, and both
\* have ended; the sources serve two keys for k1, and the store holds the
\* one of the URL
C25_Witness ==
    /\ \A r \in Slots : req[r].pc = "done" /\ req[r].reloads = 1
                        /\ Len(req[r].stored) = 2
    /\ hist = <<1, 1>> /\ now = 1
    /\ src["HTTPS://sso/certs"] = Document(<<K2ec, K1jw>>)
    /\ keys["k1"] = KeyJW

-----------------------------------------------------------------------------
(* The order of the stages of a request                                    *)

\* The stages of ServeHTTP in their order
StageOrder == <<"public", "header", "token", "claims", "acl", "forward">>

\* The reasons of checkClaims
ClaimReasons == UNION {ReasonsNaming(name) : name \in {"typ", "iat", "exp"}}

\* The last stage the request entered
LastStage(s) == s.stages[Len(s.stages)]

-----------------------------------------------------------------------------
(* The rate limit after a reload that failed                               *)

\* C27: when loadKeys has returned, whatever its sources gave, the time of
\* the last reload becomes the time of that moment and the second lookup
\* follows; and a request that misses no more than a minute after that time
\* is refused without a reload, whatever the sources serve by then.
C27_FailedReloadCounts ==
    [][\A r \in Slots :
          /\ (req[r].pc = "mark" /\ req'[r].pc # "mark") =>
                /\ lastKeyReload' = now
                /\ req'[r].pc = "reload"
          /\ (req[r].pc = "since" /\ req'[r].pc # "since"
              /\ now - lastKeyReload <= 1 * Minute) =>
                /\ req'[r].pc = "done" /\ RefusedUnverified(req'[r])
                /\ req'[r].reloads = 0 /\ req'[r].attempted = << >>
                /\ keys' = keys /\ lastKeyReload' = lastKeyReload]_vars

\* Reached: the one reload so far found every source failing and left the
\* store empty; the URL now serves k2; a request for k2 that missed within
\* the minute was refused without a reload
C27_Witness ==
    LET s == req[FirstSlot] IN
    /\ s.pc = "done" /\ s.kid = "k2" /\ s.loads = 1 /\ s.reloads = 0
    /\ RefusedUnverified(s)
    /\ Len(hist) = 1 /\ lastKeyReload # ZeroTime /\ now - lastKeyReload <= 1 * Minute
    /\ \A kid \in Kids : keys[kid] = NoKey
    /\ src["HTTPS://sso/certs"] = Document(<<K2uw>>)

-----------------------------------------------------------------------------
(* What a request changes of the handler                                   *)

\* The request ended at its first lookup of the key store, which found a key
CacheHit(s) == s.pc = "done" /\ s.loads = 1 /\ s.key # NoKey

\* The request ended before selectKey looked at the key store
EndedBeforeLookup(s) == s.pc = "done" /\ s.loads = 0

\* C28: the key store is empty and the time of the last reload is the zero
\* time until a request starts the first reload, and a miss at the zero
\* time always reloads; a request for a public path, one whose header or
\* token fails before the lookup, one whose token has no kid that is a
\* string, and one that finds its key at the first lookup start no reload
\* and leave the key store and the time as they are; the key store is
\* written only by a request inside readKeys and the time only by a request
\* that returned from loadKeys, both after a miss; and no step changes the
\* ACL, the public paths or the sources of the handler.
C28_SharedStateFrame ==
    /\ [](hist = << >> =>
             /\ \A kid \in Kids : keys[kid] = NoKey
             /\ lastKeyReload = ZeroTime)
    /\ [](\A r \in Slots :
             LET s == req[r] IN
             (\/ EndedBeforeLookup(s)
              \/ CacheHit(s)
              \/ s.pc # "idle" /\ PublicPath(s.in.path)
              \/ s.pc # "idle" /\ ~CarriesBearerToken(s.in.header)
              \/ s.pc # "idle" /\ s.in.token.kid.t # "string") =>
                /\ s.pc = "done"
                /\ s.reloads = 0 /\ s.attempted = << >> /\ s.stored = << >>)
    /\ [][/\ h' = h /\ b' = b
          /\ keys' # keys =>
                \E r \in Slots : /\ req[r].pc = "readKeys" /\ req[r].reloads = 1
                                 /\ req[r].loads = 1 /\ req[r].key = NoKey
                                 /\ req'[r] # req[r]
          /\ lastKeyReload' # lastKeyReload =>
                \E r \in Slots : /\ req[r].pc = "mark" /\ req[r].reloads = 1
                                 /\ req[r].loads = 1 /\ req[r].key = NoKey
                                 /\ req'[r] # req[r]
          /\ \A r \in Slots :
                /\ (req[r].pc = "idle" /\ req'[r].pc = "done") =>
                      keys' = keys /\ lastKeyReload' = lastKeyReload
                /\ (req[r].pc = "load" /\ req'[r] # req[r] /\ keys[req[r].kid] # NoKey) =>
                      /\ CacheHit(req'[r])
                      /\ keys' = keys /\ lastKeyReload' = lastKeyReload
                /\ (req[r].pc = "since" /\ req'[r] # req[r]
                    /\ lastKeyReload = ZeroTime) =>
                      req'[r].pc = "loadKeys" /\ req'[r].reloads = 1
                /\ req'[r].reloads > req[r].reloads =>
                      /\ req[r].pc = "since" /\ keys[req[r].kid] = NoKey]_vars

\* Reached: after a reload by an earlier request, a request found its key
\* at the first lookup and was passed on
C28_Witness ==
    LET s == req[FirstSlot] IN
    /\ CacheHit(s) /\ s.reloads = 0 /\ s.next = 1
    /\ lastKeyReload # ZeroTime /\ hist # << >>
    /\ keys["k1"] = KeyUW

====
